---- MODULE Spec2Model ----
(***************************************************************************)
(* Client-side search of the documentation theme: the HTML-aware           *)
(* tokenizers and their position tables (integrations/search/internal),    *)
(* the prototype tokenizer, the highlighters, Search.search result         *)
(* assembly (integrations/search/_) and the query/result message protocol  *)
(* of the search components.                                                *)
(*                                                                         *)
(* Strings are sequences of one-character strings; offsets are 0-based as  *)
(* in the source, so the character at offset i of v is v[i + 1].           *)
(***************************************************************************)
EXTENDS Integers, Sequences, FiniteSets, TLC

(***************************************************************************)
(* Bounds of the model                                                     *)
(***************************************************************************)
MaxLen == 4

MaxMarks == 2

ScanCap == 2

\* the hits of one answer of the index
MaxHits == 2

\* the QUERY messages of one run
MaxQueries == 3

\* languages of config.lang
MaxLangs == 2

\* documents handed to the constructor of Search
MaxDocs == 2

\* locations emitted on location$
MaxNavigations == 4

\* activations of a content tab
MaxActivations == 3

\* emissions of the focus and the hover of the host of a tooltip
MaxChanges == 4

\* calls of Segmenter.add
MaxTrainings == 2

\* characters of a value handed to Segmenter.add or Segmenter.cut
MaxValue == 3

(***************************************************************************)
(* Widths of the packed encodings                                          *)
(***************************************************************************)
BlockEntryShift == 8

BlockIndexShift == 16

FlatStartShift == 14

FlatLengthShift == 8

FlatBlockShift == 2

(***************************************************************************)
(* JavaScript strings                                                      *)
(***************************************************************************)
Chars == {"a", "B", " ", "/", "<", ">"}

Min(a, b) == IF a < b THEN a ELSE b

Max(a, b) == IF a > b THEN a ELSE b

\* String.prototype.charAt: the empty string outside the string
CharAt(v, i) == IF i >= 0 /\ i < Len(v) THEN v[i + 1] ELSE ""

\* String.prototype.slice(from, to): negative offsets count from the end,
\* both are clamped to the string
SliceIdx(v, i) == IF i < 0 THEN Max(Len(v) + i, 0) ELSE Min(i, Len(v))

Slice(v, from, to) ==
  LET f == SliceIdx(v, from)
      t == SliceIdx(v, to)
  IN  IF f < t THEN SubSeq(v, f + 1, t) ELSE <<>>

SliceFrom(v, from) == Slice(v, from, Len(v))

LowerChar(c) ==
  IF c = "B" THEN "b"
  ELSE IF c = "M" THEN "m"
  ELSE IF c = "T" THEN "t"
  ELSE c

\* the token text keeps the case of the input
ToLowerCaseKeep(v) == v

\* String.prototype.toLowerCase
ToLowerCase(v) == [i \in 1..Len(v) |-> LowerChar(v[i])]

IsUpper(c) == c \in {"B", "M", "T"}

IsLower(c) == c \in {"a", "b", "d", "e", "g", "h", "i", "m", "r", "t"}

IsWord(c) == IsUpper(c) \/ IsLower(c)

(***************************************************************************)
(* 32-bit integer operators of JavaScript                                  *)
(***************************************************************************)
Pow2(n) == 2 ^ n

MinInt32 == -2147483647 - 1

\* x << n for 1 <= n <= 31: the low 32 - n bits of x move up, the result is
\* read as a signed 32-bit integer
Shl(x, n) ==
  LET r == x % Pow2(32 - n)
      h == Pow2(31 - n)
  IN  IF r >= h THEN (r - h) * Pow2(n) + MinInt32 ELSE r * Pow2(n)

\* x >> n (sign-propagating)
Shr(x, n) == x \div Pow2(n)

\* x | y on two's complement integers
RECURSIVE Or32(_, _)
Or32(x, y) ==
  IF x = 0 THEN y
  ELSE IF y = 0 THEN x
  ELSE IF x = -1 \/ y = -1 THEN -1
  ELSE (IF x % 2 = 1 \/ y % 2 = 1 THEN 1 ELSE 0) + 2 * Or32(x \div 2, y \div 2)

\* x & y on two's complement integers
RECURSIVE And32(_, _)
And32(x, y) ==
  IF x = 0 \/ y = 0 THEN 0
  ELSE IF x = -1 THEN y
  ELSE IF y = -1 THEN x
  ELSE (IF x % 2 = 1 /\ y % 2 = 1 THEN 1 ELSE 0) + 2 * And32(x \div 2, y \div 2)

(***************************************************************************)
(* Separator patterns (lunr.tokenizer.separator)                           *)
(*                                                                         *)
(* "space"      [\s]+                                                      *)
(* "configured" the separator of the site configuration, over Chars:       *)
(*              [\s/]+ | (?!\b)(?=[A-Z][a-z])                              *)
(***************************************************************************)
Separators == {"space", "configured"}

SepClass(sep) == IF sep = "configured" THEN {" ", "/"} ELSE {" "}

\* \b at offset i of s
WordBoundary(s, i) == IsWord(CharAt(s, i - 1)) # IsWord(CharAt(s, i))

\* length of the run of separator characters starting at offset i
RECURSIVE ClassRun(_, _, _)
ClassRun(sep, s, i) ==
  IF CharAt(s, i) \in SepClass(sep) THEN 1 + ClassRun(sep, s, i + 1) ELSE 0

\* length of the match of the pattern at offset i, or -1 when there is none
SepMatchAt(sep, s, i) ==
  IF ClassRun(sep, s, i) > 0 THEN ClassRun(sep, s, i)
  ELSE IF /\ sep = "configured"
          /\ ~WordBoundary(s, i)
          /\ IsUpper(CharAt(s, i))
          /\ IsLower(CharAt(s, i + 1))
       THEN 0
       ELSE -1

NoMatch == [found |-> FALSE, index |-> 0, length |-> 0]

\* RegExp.prototype.exec of a global pattern: the leftmost match at or after
\* lastIndex, or null
RegExec(sep, s, lastIndex) ==
  LET at == {i \in lastIndex..Len(s) : SepMatchAt(sep, s, i) >= 0}
  IN  IF at = {} THEN NoMatch
      ELSE LET i == CHOOSE j \in at : \A k \in at : j <= k
           IN  [found |-> TRUE, index |-> i, length |-> SepMatchAt(sep, s, i)]

\* lastIndex after exec: the end of the match, 0 after a failed match
ExecLastIndex(m) == IF m.found THEN m.index + m.length ELSE 0

(***************************************************************************)
(* split of ~/utilities: the ranges between the matches of the separator   *)
(***************************************************************************)
RECURSIVE SplitLoop(_, _, _, _, _)
SplitLoop(input, sep, lastIndex, index, ranges) ==
  LET match  == RegExec(sep, input, lastIndex)
      until  == IF match.found THEN match.index ELSE Len(input)
      ranges2 == IF index < until THEN Append(ranges, <<index, until>>) ELSE ranges
  IN  IF match.found
      THEN SplitLoop(input, sep,
                     IF match.length = 0 THEN match.index + 1
                                         ELSE ExecLastIndex(match),
                     match.index + match.length, ranges2)
      ELSE ranges2

Split(input, sep) == SplitLoop(input, sep, 0, 0, <<>>)

(***************************************************************************)
(* extract: the sections of a string, block-table variant                  *)
(***************************************************************************)
ExtractInit == [block |-> 0, start |-> 0, stack |-> 0, sections |-> <<>>, end |-> 0]

\* the trailing section, added after the loop
ExtractTrailing(value, st) ==
  IF Len(value) > st.start
  THEN Append(st.sections, [block |-> st.block, add |-> 1,
                            start |-> st.start, end |-> Len(value)])
  ELSE st.sections

\* ExtractStep with the block counter following the nesting depth: it is
\* counted down again when a tag closes
ExtractStepBlockIsDepth(value, st, end) ==
  IF CharAt(value, end) = "<" /\ end > st.start
  THEN [st EXCEPT !.sections = Append(@, [block |-> st.block, add |-> 1,
                                          start |-> st.start, end |-> end]),
                  !.start = end]
  ELSE IF CharAt(value, end) = ">"
  THEN IF CharAt(value, st.start + 1) = "/"
       THEN [st EXCEPT !.stack = @ - 1,
                       !.block = IF st.block > 0 THEN @ - 1 ELSE @,
                       !.start = end + 1]
       ELSE IF CharAt(value, end - 1) # "/"
       THEN [st EXCEPT !.stack = @ + 1,
                       !.block = @ + 1,
                       !.sections = IF st.stack = 0
                                    THEN Append(@, [block |-> st.block + 1,
                                                    add |-> 0,
                                                    start |-> st.start + 1,
                                                    end |-> end])
                                    ELSE @,
                       !.start = end + 1]
       ELSE [st EXCEPT !.start = end + 1]
  ELSE st

\* one iteration of the loop of extract, at offset end
ExtractStep(value, st, end) ==
  IF CharAt(value, end) = "<" /\ end > st.start
  THEN [st EXCEPT !.sections = Append(@, [block |-> st.block, add |-> 1,
                                          start |-> st.start, end |-> end]),
                  !.start = end]
  ELSE IF CharAt(value, end) = ">"
  THEN IF CharAt(value, st.start + 1) = "/"
       THEN [st EXCEPT !.stack = @ - 1,
                       !.block = IF st.stack - 1 = 0 THEN @ + 1 ELSE @,
                       !.start = end + 1]
       ELSE IF CharAt(value, end - 1) # "/"
       THEN [st EXCEPT !.stack = @ + 1,
                       !.sections = IF st.stack = 0
                                    THEN Append(@, [block |-> st.block, add |-> 0,
                                                    start |-> st.start + 1,
                                                    end |-> end])
                                    ELSE @,
                       !.start = end + 1]
       ELSE [st EXCEPT !.start = end + 1]
  ELSE st

(***************************************************************************)
(* split: the sections of a string, flat packed variant                    *)
(***************************************************************************)
SplitSectionsInit == [block |-> 0, start |-> 0, stack |-> 0, sections |-> <<>>, end |-> 0]

\* the trailing section, added after the loop
SplitSectionsTrailing(value, st) ==
  IF Len(value) > st.start
  THEN Append(st.sections, [start |-> st.start, end |-> Len(value),
                            block |-> st.block])
  ELSE st.sections

\* SplitSectionsStep with the new section starting at the ">" of the tag
\* instead of after it
SplitSectionsStepAtBracket(value, st, end) ==
  IF CharAt(value, end) = "<" /\ end > st.start
  THEN [st EXCEPT !.sections = Append(@, [start |-> st.start, end |-> end,
                                          block |-> st.block]),
                  !.start = end]
  ELSE IF CharAt(value, end) = ">"
  THEN IF CharAt(value, st.start + 1) = "/"
       THEN [st EXCEPT !.stack = @ - 1,
                       !.block = IF st.stack - 1 = 0 THEN @ + 1 ELSE @,
                       !.sections = IF st.stack - 1 = 0
                                    THEN Append(@, [start |-> end + 1,
                                                    end |-> end + 1,
                                                    block |-> st.block + 1])
                                    ELSE @,
                       !.start = end]
       ELSE IF CharAt(value, end - 1) # "/"
       THEN [st EXCEPT !.stack = @ + 1, !.start = end]
       ELSE [st EXCEPT !.start = end]
  ELSE st

\* SplitSectionsStep without the test for "/>": a self-closing tag opens an
\* element like any other tag that is not a closing tag
SplitSectionsStepNoSelfClosing(value, st, end) ==
  IF CharAt(value, end) = "<" /\ end > st.start
  THEN [st EXCEPT !.sections = Append(@, [start |-> st.start, end |-> end,
                                          block |-> st.block]),
                  !.start = end]
  ELSE IF CharAt(value, end) = ">"
  THEN IF CharAt(value, st.start + 1) = "/"
       THEN [st EXCEPT !.stack = @ - 1,
                       !.block = IF st.stack - 1 = 0 THEN @ + 1 ELSE @,
                       !.sections = IF st.stack - 1 = 0
                                    THEN Append(@, [start |-> end + 1,
                                                    end |-> end + 1,
                                                    block |-> st.block + 1])
                                    ELSE @,
                       !.start = end + 1]
       ELSE [st EXCEPT !.stack = @ + 1, !.start = end + 1]
  ELSE st

\* one iteration of the loop of split, at offset end
SplitSectionsStep(value, st, end) ==
  IF CharAt(value, end) = "<" /\ end > st.start
  THEN [st EXCEPT !.sections = Append(@, [start |-> st.start, end |-> end,
                                          block |-> st.block]),
                  !.start = end]
  ELSE IF CharAt(value, end) = ">"
  THEN IF CharAt(value, st.start + 1) = "/"
       THEN [st EXCEPT !.stack = @ - 1,
                       !.block = IF st.stack - 1 = 0 THEN @ + 1 ELSE @,
                       !.sections = IF st.stack - 1 = 0
                                    THEN Append(@, [start |-> end + 1,
                                                    end |-> end + 1,
                                                    block |-> st.block + 1])
                                    ELSE @,
                       !.start = end + 1]
       ELSE IF CharAt(value, end - 1) # "/"
       THEN [st EXCEPT !.stack = @ + 1, !.start = end + 1]
       ELSE [st EXCEPT !.start = end + 1]
  ELSE st

(***************************************************************************)
(* tokenizer, block-table variant                                          *)
(*                                                                         *)
(* The table maps a block index to [type, data]; a block that was never    *)
(* assigned is outside its domain.  A token is [text, index, from, to]:    *)
(* its text, its position index, and the range of the input it was cut     *)
(* from (from and to are not stored by the program).                       *)
(***************************************************************************)
TableSet(table, block, entry) ==
  [b \in DOMAIN table \cup {block} |-> IF b = block THEN entry ELSE table[b]]

\* the callback handed to split: one table entry and one token per range
RECURSIVE BlockAddRanges(_, _, _, _)
BlockAddRanges(value, acc, sec, ranges) ==
  IF ranges = <<>> THEN acc
  ELSE LET index == ranges[1][1]
           until == ranges[1][2]
           old   == IF sec.block \in DOMAIN acc.table
                    THEN acc.table[sec.block]
                    ELSE [type |-> <<>>, data |-> <<>>]
           data  == Append(old.data,
                           Or32(Shl(sec.start + index, BlockEntryShift),
                                until - index))
           token == [text  |-> ToLowerCase(Slice(Slice(value, sec.start, sec.end),
                                                 index, until)),
                     index |-> Or32(Shl(sec.block, BlockIndexShift), Len(data) - 1),
                     from  |-> sec.start + index,
                     to    |-> sec.start + until]
       IN  BlockAddRanges(value,
                          [table  |-> TableSet(acc.table, sec.block,
                                               [old EXCEPT !.data = data]),
                           tokens |-> Append(acc.tokens, token)],
                          sec, Tail(ranges))

\* the body of the loop over the sections
BlockSection(value, sep, acc, sec) ==
  IF sec.add = 1
  THEN BlockAddRanges(value, acc, sec,
                      Split(Slice(value, sec.start, sec.end), sep))
  ELSE [acc EXCEPT !.table =
          TableSet(acc.table, sec.block,
                   [type |-> IF sec.end > sec.start
                             THEN Slice(value, sec.start, sec.end) ELSE <<>>,
                    data |-> <<>>])]

EmptyTable == [b \in {} |-> <<>>]

(***************************************************************************)
(* highlighters                                                            *)
(*                                                                         *)
(* A position list is the sequence of the position indices; every          *)
(* position of one tokenization refers to the same table.                  *)
(***************************************************************************)
Mark == <<"<", "m", "a", "r", "k", ">">>

EndMark == <<"<", "/", "m", "a", "r", "k", ">">>

\* positions.sort((a, b) => b.index - a.index): stable, descending
RECURSIVE InsertDesc(_, _)
InsertDesc(sorted, i) ==
  IF sorted = <<>> THEN <<i>>
  ELSE IF Head(sorted) >= i THEN <<Head(sorted)>> \o InsertDesc(Tail(sorted), i)
  ELSE <<i>> \o sorted

RECURSIVE SortDesc(_)
SortDesc(positions) ==
  IF positions = <<>> THEN <<>>
  ELSE InsertDesc(SortDesc(SubSeq(positions, 1, Len(positions) - 1)),
                  positions[Len(positions)])

\* wrap the occurrence at offset, of the given length, with the marker
Wrap(value, offset, length) ==
  Slice(value, 0, offset) \o Mark \o Slice(value, offset, offset + length)
    \o EndMark \o SliceFrom(value, offset + length)

\* table[block].data[index] in a bitwise expression: undefined counts as 0
BlockEntry(table, block, index) ==
  IF index + 1 \in DOMAIN table[block].data THEN table[block].data[index + 1] ELSE 0

BlockOffset(table, i) ==
  Shr(BlockEntry(table, Shr(i, BlockIndexShift), And32(i, 65535)), BlockEntryShift)

BlockLength(table, i) ==
  And32(BlockEntry(table, Shr(i, BlockIndexShift), And32(i, 65535)), 255)

RECURSIVE BlockHighlightLoop(_, _, _)
BlockHighlightLoop(value, table, sorted) ==
  IF sorted = <<>> THEN [threw |-> FALSE, value |-> value]
  ELSE IF Shr(Head(sorted), BlockIndexShift) \notin DOMAIN table
  THEN [threw |-> TRUE, value |-> value]
  ELSE BlockHighlightLoop(Wrap(value, BlockOffset(table, Head(sorted)),
                                      BlockLength(table, Head(sorted))),
                          table, Tail(sorted))

\* highlighter, block-table variant
BlockHighlighter(value, table, positions) ==
  BlockHighlightLoop(value, table, SortDesc(positions))

\* table[index] in a bitwise expression: undefined counts as 0
FlatEntry(table, index) ==
  IF index + 1 \in DOMAIN table THEN table[index + 1] ELSE 0

FlatOffset(table, index) == Shr(FlatEntry(table, index), FlatStartShift)

FlatLength(table, index) ==
  And32(Shr(FlatEntry(table, index), FlatLengthShift), 63)

RECURSIVE FlatHighlightLoop(_, _, _)
FlatHighlightLoop(value, table, sorted) ==
  IF sorted = <<>> THEN [threw |-> FALSE, value |-> value]
  ELSE FlatHighlightLoop(Wrap(value, FlatOffset(table, Head(sorted)),
                                     FlatLength(table, Head(sorted))),
                         table, Tail(sorted))

\* highlighter, flat packed variant
FlatHighlighter(value, table, positions) ==
  FlatHighlightLoop(value, table, SortDesc(positions))

(***************************************************************************)
(* State                                                                   *)
(***************************************************************************)
VARIABLES
  variant,     \* which tokenizer runs: "block", "flat" or "proto"
  value,       \* the string handed to the tokenizer
  separator,   \* lunr.tokenizer.separator
  pc,          \* position of the run
  ex,          \* block, start, end, stack and sections of extract or split
  sections,    \* the sections returned by extract or split
  si,          \* the section the loop of the tokenizer is at (1-based)
  table,       \* the position table
  tokens,      \* the tokens emitted so far
  flat,        \* flat: index, separator.lastIndex and match of the inner loop
  proto,       \* prototype: start, end, block and the stack of open tags
  matches,     \* the tokens whose positions are handed to the highlighter
  marked,      \* the result of the highlighter
  documents,   \* Search: the search document mapping
  tables,      \* Search: the position tables by location and field
  options,     \* Search: the search options
  query,       \* the query value handed to Search.search
  index,       \* what the Lunr.js index and the highlighter answer in the call
  asked,       \* the clauses search has handed to index.query in the call
  result,      \* the search result, once search has returned
  spc,         \* Search.search: "idle", or the return statement reached
  config,      \* constructor: the search index configuration
  indexDocs,   \* constructor: docs, the search index documents
  pipeline,    \* constructor: the indexing pipeline of the builder
  searchPipeline, \* constructor: the search pipeline of the builder
  cpc,         \* constructor: position of the run
  ci,          \* constructor: the language or document the loop is at
  el,          \* the value of the search query element
  fetched,     \* index$ has emitted the search index
  ready,       \* the READY message of the worker was received on rx$
  waiting,     \* an event of value$ waits for index$ (switchMapTo)
  emitted,     \* the last value that passed distinctUntilChanged
  issued,      \* the QUERY messages sent on tx$, in order
  outstanding, \* the QUERY messages not yet answered (indices of issued)
  displayed,   \* the QUERY message whose result the list shows (0: none)
  previous,    \* instant navigation: the location last emitted on location$
  buffer,      \* instant navigation: the key held by distinctUntilKeyChanged
  request,     \* instant navigation: the request in flight
  response,    \* instant navigation: the response whose text() is pending
  loading,     \* instant navigation: the document whose scripts are loading
  requested,   \* instant navigation: the location of the last request
  delivered,   \* instant navigation: the documents emitted on document$
  navigations, \* instant navigation: the locations emitted so far
  reloaded,    \* instant navigation: setLocation has force-loaded a page
  link,        \* content tabs: feature("content.tabs.link")
  storage,     \* content tabs: the value stored under __tabs
  checked,     \* content tabs: the checked input of every set (1-based)
  active,      \* content tabs: the label that was last activated
  activations, \* content tabs: the tab activations so far
  hostTitle,   \* tooltip: title, the title of the host when it is mounted
  tooltipId,   \* tooltip: id
  host,        \* tooltip: the attributes of the host
  attached,    \* tooltip: the tooltip is in the document, after the host
  focus,       \* tooltip: the last value of watchElementFocus
  hover,       \* tooltip: the last value of watchElementHover
  debounced,   \* tooltip: the value debounceTime holds back
  tpc,         \* tooltip: "created", "mounted" or "completed"
  changes,     \* tooltip: the emissions of focus and hover so far
  trained,     \* segmenter: set, the segmentation map
  trainings,   \* segmenter: the calls of add so far
  cutValue,    \* segmenter: value, the string handed to cut
  segments,    \* segmenter: cut, the segments found so far
  cuts,        \* segmenter: cut, the cuts in the order of insertion
  cutAt,       \* segmenter: cut, the place of the iteration in cuts
  cutJ,        \* segmenter: cut, j
  cutReturn,   \* segmenter: what cut has returned
  gpc          \* segmenter: "train", "cut" or "returned"

tokVars == <<variant, value, separator, pc, ex, sections, si, table, tokens,
             flat, proto, matches, marked>>

searchVars == <<documents, tables, options, query, index, asked, result, spc>>

protocolVars == <<el, fetched, ready, waiting, emitted, issued, outstanding,
                  displayed>>

constructorVars == <<config, indexDocs, pipeline, searchPipeline, cpc, ci>>

instantVars == <<previous, buffer, request, response, loading, requested,
                 delivered, navigations, reloaded>>

coreVars == <<tokVars, searchVars, constructorVars, protocolVars>>

tabsVars == <<link, storage, checked, active, activations>>

tooltipVars == <<hostTitle, tooltipId, host, attached, focus, hover,
                 debounced, tpc, changes>>

segmenterVars == <<trained, trainings, cutValue, segments, cuts, cutAt, cutJ,
                   cutReturn, gpc>>

componentVars == <<instantVars, tabsVars, tooltipVars, segmenterVars>>

vars == <<coreVars, componentVars>>

(***************************************************************************)
(* Inputs                                                                  *)
(***************************************************************************)
StringsUpTo(n) == UNION {[1..k -> Chars] : k \in 0..n}

\* a token one character longer than the 6-bit length field holds
LongToken == [i \in 1..Pow2(FlatStartShift - FlatLengthShift) |-> "a"]

\* "The <b>Mermaid</b> diagram"
Mermaid ==
  <<"T", "h", "e", " ", "<", "b", ">", "M", "e", "r", "m", "a", "i", "d",
    "<", "/", "b", ">", " ", "d", "i", "a", "g", "r", "a", "m">>

Scenarios ==
  { LongToken,
    Mermaid,
    LongToken \o <<" ", "B">>,
    <<"a", " ", "a", "<", ">", "B">>,
    <<"B", "a", " ", "<", "a", ">", "B", "a", "<", "/", "a", ">", " ", "a">>,
    <<"<", "a", ">", "a", "<", "a", ">", "B", "<", "/", "a", ">", "<", "/", "a", ">",
      "<", "a", ">", "a", "<", "/", "a", ">">>,
    <<"<", "a", ">", "a", "<", "a", "/", ">", "B", "<", "/", "a", ">", "a">>,
    <<"<", "a", ">", "a", "<", "a", ">", "<", "a", "/", ">", "B", "<", "/", "a", ">",
      "<", "/", "a", ">", "a">> }

Inputs == StringsUpTo(MaxLen) \cup Scenarios

NoFlat == [index |-> 0, lastIndex |-> 0, match |-> NoMatch]

NoProto == [start |-> 0, end |-> 0, block |-> 0, stack |-> <<>>]

NoMarked == [threw |-> FALSE, value |-> <<>>]

\* no call of Search.search is under way: nothing asked, nothing answered
NoIndex == [throws |-> "none", hits |-> <<>>, titles |-> <<>>]

\* index.query was not called
NotAsked == [called |-> FALSE, clauses |-> <<>>]

NoResult == [none |-> TRUE]

\* no value has passed distinctUntilChanged yet
NoValue == <<"none">>

\* the tokenizers are not part of the run
TokIdle ==
  /\ variant = "none"
  /\ value = <<>>
  /\ separator = "space"
  /\ pc = "idle"
  /\ ex = ExtractInit
  /\ sections = <<>>
  /\ si = 1
  /\ table = <<>>
  /\ tokens = <<>>
  /\ flat = NoFlat
  /\ proto = NoProto
  /\ matches = <<>>
  /\ marked = NoMarked

\* no Search object is part of the run
SearchIdle ==
  /\ documents = <<>>
  /\ tables = <<>>
  /\ options = [suggestions |-> FALSE]
  /\ query = <<>>
  /\ index = NoIndex
  /\ asked = NotAsked
  /\ result = NoResult
  /\ spc = "idle"

\* the constructor is not part of the run
ConstructorIdle ==
  /\ config = [lang |-> <<>>]
  /\ indexDocs = <<>>
  /\ pipeline = <<>>
  /\ searchPipeline = <<>>
  /\ cpc = "idle"
  /\ ci = 0

\* the search query and result components are not part of the run
ProtocolIdle ==
  /\ el = <<>>
  /\ fetched = FALSE
  /\ ready = FALSE
  /\ waiting = FALSE
  /\ emitted = NoValue
  /\ issued = <<>>
  /\ outstanding = {}
  /\ displayed = 0

\* no request and no response
None == [none |-> TRUE]

\* instant navigation is not part of the run
InstantIdle ==
  /\ previous = None
  /\ buffer = None
  /\ request = None
  /\ response = None
  /\ loading = None
  /\ requested = None
  /\ delivered = <<>>
  /\ navigations = 0
  /\ reloaded = FALSE

\* localStorage has no item under the key
NoItem == [item |-> FALSE, value |-> <<>>]

\* the content tabs are not part of the run
TabsIdle ==
  /\ link = FALSE
  /\ storage = NoItem
  /\ checked = <<>>
  /\ active = <<>>
  /\ activations = 0

\* the tooltip is not part of the run
TooltipIdle ==
  /\ hostTitle = ""
  /\ tooltipId = <<>>
  /\ host = <<>>
  /\ attached = FALSE
  /\ focus = <<>>
  /\ hover = <<>>
  /\ debounced = <<>>
  /\ tpc = "idle"
  /\ changes = 0

\* the segmenter is not part of the run
SegmenterIdle ==
  /\ trained = {}
  /\ trainings = 0
  /\ cutValue = <<>>
  /\ segments = <<>>
  /\ cuts = <<>>
  /\ cutAt = 0
  /\ cutJ = 0
  /\ cutReturn = <<>>
  /\ gpc = "idle"

\* the tokenizer, the search, its constructor and the query protocol are not
\* part of the run
CoreIdle ==
  /\ TokIdle
  /\ SearchIdle
  /\ ConstructorIdle
  /\ ProtocolIdle

\* the components are not part of the run
ComponentsIdle ==
  /\ InstantIdle
  /\ TabsIdle
  /\ TooltipIdle
  /\ SegmenterIdle

TokInit ==
  /\ variant \in {"block", "flat", "proto"}
  /\ value \in Inputs
  /\ separator \in IF variant = "proto" THEN {"proto"} ELSE Separators
  /\ pc = "start"
  /\ ex = ExtractInit
  /\ sections = <<>>
  /\ si = 1
  /\ table = <<>>
  /\ tokens = <<>>
  /\ flat = NoFlat
  /\ proto = NoProto
  /\ matches = <<>>
  /\ marked = NoMarked
  /\ SearchIdle
  /\ ConstructorIdle
  /\ ProtocolIdle
  /\ ComponentsIdle

(***************************************************************************)
(* tokenizer, block-table variant                                          *)
(***************************************************************************)
\* if (input): the empty string yields no tokens; otherwise extract starts
BlockEnter ==
  /\ variant = "block" /\ pc = "start"
  /\ table' = EmptyTable
  /\ IF value = <<>>
     THEN /\ pc' = "tokenized"
          /\ UNCHANGED ex
     ELSE /\ pc' = "extract"
          /\ ex' = ExtractInit
  /\ UNCHANGED <<searchVars, constructorVars, protocolVars, componentVars>>
  /\ UNCHANGED <<variant, value, separator, sections, si, tokens, flat, proto,
                 matches, marked>>

\* one iteration of the loop of extract, and its exit
BlockExtract ==
  /\ variant = "block" /\ pc = "extract"
  /\ IF ex.end < Len(value)
     THEN /\ ex' = [ExtractStep(value, ex, ex.end) EXCEPT !.end = ex.end + 1]
          /\ UNCHANGED <<pc, sections>>
     ELSE /\ sections' = ExtractTrailing(value, ex)
          /\ pc' = "section"
          /\ UNCHANGED ex
  /\ UNCHANGED <<searchVars, constructorVars, protocolVars, componentVars>>
  /\ UNCHANGED <<variant, value, separator, si, table, tokens, flat, proto,
                 matches, marked>>

\* one iteration of the loop over the sections, and its exit
BlockTokenize ==
  /\ variant = "block" /\ pc = "section"
  /\ IF si <= Len(sections)
     THEN /\ LET r == BlockSection(value, separator,
                                   [table |-> table, tokens |-> tokens],
                                   sections[si])
             IN  /\ table' = r.table
                 /\ tokens' = r.tokens
          /\ si' = si + 1
          /\ UNCHANGED pc
     ELSE /\ pc' = "tokenized"
          /\ UNCHANGED <<si, table, tokens>>
  /\ UNCHANGED <<searchVars, constructorVars, protocolVars, componentVars>>
  /\ UNCHANGED <<variant, value, separator, sections, ex, flat, proto, matches,
                 marked>>

(***************************************************************************)
(* tokenizer, flat packed variant                                          *)
(***************************************************************************)
FlatEnter ==
  /\ variant = "flat" /\ pc = "start"
  /\ table' = <<0>>
  /\ ex' = SplitSectionsInit
  /\ pc' = "split"
  /\ UNCHANGED <<searchVars, constructorVars, protocolVars, componentVars>>
  /\ UNCHANGED <<variant, value, separator, sections, si, tokens, flat, proto,
                 matches, marked>>

\* one iteration of the loop of split, and its exit
FlatSplit ==
  /\ variant = "flat" /\ pc = "split"
  /\ IF ex.end < Len(value)
     THEN /\ ex' = [SplitSectionsStep(value, ex, ex.end) EXCEPT !.end = ex.end + 1]
          /\ UNCHANGED <<pc, sections>>
     ELSE /\ sections' = SplitSectionsTrailing(value, ex)
          /\ pc' = "section"
          /\ UNCHANGED ex
  /\ UNCHANGED <<searchVars, constructorVars, protocolVars, componentVars>>
  /\ UNCHANGED <<variant, value, separator, si, table, tokens, flat, proto,
                 matches, marked>>

\* the loop over the sections: a new RegExp and index = 0 for each section
FlatSection ==
  /\ variant = "flat" /\ pc = "section"
  /\ IF si <= Len(sections)
     THEN /\ flat' = NoFlat
          /\ pc' = "exec"
     ELSE /\ pc' = "tokenized"
          /\ UNCHANGED flat
  /\ UNCHANGED <<searchVars, constructorVars, protocolVars, componentVars>>
  /\ UNCHANGED <<variant, value, separator, ex, sections, si, table, tokens,
                 proto, matches, marked>>

FlatPack(start, length, block) ==
  Or32(Or32(Shl(start, FlatStartShift), Shl(length, FlatLengthShift)),
       Shl(block, FlatBlockShift))

\* separator.lastIndex after one iteration of the inner loop
FlatLastIndex(match) == ExecLastIndex(match)

\* one iteration of the do ... while (match) loop
FlatExec ==
  /\ variant = "flat" /\ pc = "exec"
  /\ LET sec     == sections[si]
         section == Slice(value, sec.start, sec.end)
         match   == RegExec(separator, section, flat.lastIndex)
         until   == IF match.found THEN match.index ELSE Len(section)
     IN  /\ IF flat.index < until
            THEN /\ table' = Append(table, FlatPack(sec.start + flat.index,
                                                    until - flat.index, sec.block))
                 /\ tokens' = Append(tokens,
                      [text  |-> ToLowerCase(Slice(section, flat.index, until)),
                       index |-> Len(table),
                       from  |-> sec.start + flat.index,
                       to    |-> sec.start + until])
            ELSE UNCHANGED <<table, tokens>>
         /\ flat' = [index     |-> IF match.found THEN match.index + match.length
                                                  ELSE flat.index,
                     lastIndex |-> FlatLastIndex(match),
                     match     |-> match]
         /\ IF match.found
            THEN UNCHANGED <<pc, si>>
            ELSE /\ pc' = "section"
                 /\ si' = si + 1
  /\ UNCHANGED <<searchVars, constructorVars, protocolVars, componentVars>>
  /\ UNCHANGED <<variant, value, separator, ex, sections, proto, matches, marked>>

(***************************************************************************)
(* tokenizer, prototype                                                    *)
(***************************************************************************)
\* lunr.tokenizer.separator.test(char) for the separator of the prototype,
\* /[\s\-.,:!="'/]/
ProtoSeparatorTest(char) == char \in {" ", "/"}

ProtoEnter ==
  /\ variant = "proto" /\ pc = "start"
  /\ table' = <<0>>
  /\ proto' = NoProto
  /\ pc' = "outer"
  /\ UNCHANGED <<searchVars, constructorVars, protocolVars, componentVars>>
  /\ UNCHANGED <<variant, value, separator, ex, sections, si, tokens, flat,
                 matches, marked>>

\* the token for the pending span, added when the span is not empty
ProtoCreateToken ==
  IF proto.end > proto.start
  THEN /\ table' = Append(table, FlatPack(proto.start, proto.end - proto.start,
                                          proto.block))
       /\ tokens' = Append(tokens,
            [text  |-> Slice(ToLowerCase(value), proto.start, proto.end),
             index |-> Len(table),
             from  |-> proto.start,
             to    |-> proto.end])
  ELSE UNCHANGED <<table, tokens>>

\* one iteration of the outer loop at a character other than "<", and the
\* exit of the loop
ProtoChar ==
  /\ variant = "proto" /\ pc = "outer"
  /\ LET char == CharAt(ToLowerCase(value), proto.end)
     IN  IF proto.end > Len(value)
         THEN /\ pc' = "tokenized"
              /\ UNCHANGED <<table, tokens, proto>>
         ELSE /\ char # "<"
              /\ pc' = "outer"
              /\ IF ProtoSeparatorTest(char) \/ proto.end = Len(value)
                 THEN /\ ProtoCreateToken
                      /\ proto' = [proto EXCEPT !.start = proto.end + 1,
                                                !.end = proto.end + 1]
                 ELSE /\ proto' = [proto EXCEPT !.end = proto.end + 1]
                      /\ UNCHANGED <<table, tokens>>
  /\ UNCHANGED <<searchVars, constructorVars, protocolVars, componentVars>>
  /\ UNCHANGED <<variant, value, separator, ex, sections, si, flat, matches,
                 marked>>

\* one iteration of the outer loop at "<", up to the scan for ">"
ProtoTagOpen ==
  /\ variant = "proto" /\ pc = "outer"
  /\ proto.end <= Len(value)
  /\ CharAt(ToLowerCase(value), proto.end) = "<"
  /\ ProtoCreateToken
  /\ proto' = [proto EXCEPT !.start = proto.end]
  /\ pc' = "scan"
  /\ UNCHANGED <<searchVars, constructorVars, protocolVars, componentVars>>
  /\ UNCHANGED <<variant, value, separator, ex, sections, si, flat, matches,
                 marked>>

\* while (value.charAt(end) !== ">") end++
ProtoScan ==
  /\ variant = "proto" /\ pc = "scan"
  /\ CharAt(ToLowerCase(value), proto.end) # ">"
  /\ proto.end < Len(value) + ScanCap
  /\ proto' = [proto EXCEPT !.end = proto.end + 1]
  /\ UNCHANGED <<searchVars, constructorVars, protocolVars, componentVars>>
  /\ UNCHANGED <<variant, value, separator, pc, ex, sections, si, table, tokens,
                 flat, matches, marked>>

\* the stack after the tag from start to end
ProtoStack(v, p) ==
  IF CharAt(v, p.start + 1) = "/"
  THEN IF p.stack = <<>> THEN <<>> ELSE SubSeq(p.stack, 1, Len(p.stack) - 1)
  ELSE IF CharAt(v, p.end) # "/"
  THEN Append(p.stack, Slice(v, p.start + 1, p.end))
  ELSE p.stack

\* the rest of the iteration once the scan has found ">"
ProtoTagEnd ==
  /\ variant = "proto" /\ pc = "scan"
  /\ CharAt(ToLowerCase(value), proto.end) = ">"
  /\ LET v       == ToLowerCase(value)
         stack   == ProtoStack(v, proto)
         closing == CharAt(v, proto.start + 1) = "/"
         marker  == closing /\ stack = <<>>
         block   == IF marker THEN proto.block + 1 ELSE proto.block
     IN  /\ table' = IF marker
                     THEN Append(table, Or32(Shl(proto.end + 1, FlatStartShift),
                                             Shl(block, FlatBlockShift)))
                     ELSE table
         /\ proto' = [start |-> proto.end + 1, end |-> proto.end + 1,
                      block |-> block, stack |-> stack]
  /\ pc' = "outer"
  /\ UNCHANGED <<searchVars, constructorVars, protocolVars, componentVars>>
  /\ UNCHANGED <<variant, value, separator, ex, sections, si, tokens, flat,
                 matches, marked>>

(***************************************************************************)
(* highlighting the positions of some of the tokens                        *)
(***************************************************************************)
\* the lists of at most MaxMarks different tokens, in any order
MatchLists(n) ==
  UNION {{m \in [1..k -> 1..n] : \A i, j \in 1..k : i # j => m[i] # m[j]}
           : k \in 0..MaxMarks}

Positions(toks, ms) == [k \in 1..Len(ms) |-> toks[ms[k]].index]

Highlighter(var, v, tab, positions) ==
  IF var = "block" THEN BlockHighlighter(v, tab, positions)
                   ELSE FlatHighlighter(v, tab, positions)

Highlight ==
  /\ variant \in {"block", "flat"} /\ pc = "tokenized"
  /\ \E ms \in MatchLists(Len(tokens)) :
       /\ matches' = ms
       /\ marked' = Highlighter(variant, value, table, Positions(tokens, ms))
  /\ pc' = "done"
  /\ UNCHANGED <<searchVars, constructorVars, protocolVars, componentVars>>
  /\ UNCHANGED <<variant, value, separator, ex, sections, si, table, tokens,
                 flat, proto>>

TokNext ==
  \/ BlockEnter
  \/ BlockExtract
  \/ BlockTokenize
  \/ FlatEnter
  \/ FlatSplit
  \/ FlatSection
  \/ FlatExec
  \/ ProtoEnter
  \/ ProtoChar
  \/ ProtoTagOpen
  \/ ProtoScan
  \/ ProtoTagEnd
  \/ Highlight

SpecTok == TokInit /\ [][TokNext]_vars

(***************************************************************************)
(* Search: documents, position tables and queries                          *)
(*                                                                         *)
(* A document is a function of its keys: location, title, text, and for a  *)
(* section parent, for a tagged article tags.  A value of the document map *)
(* refers to its parent by the parent's location.  A query value is the    *)
(* sequence of its characters; a term is a sequence of characters too.     *)
(***************************************************************************)
Locations == {"a/", "a/#s", "b/", "b/#s"}

\* the part of a location before the hash fragment
Article(location) == IF location \in {"a/", "a/#s"} THEN "a/" ELSE "b/"

IsSection(location) == location # Article(location)

\* the value undefined, where a document is expected
Undefined == [undefined |-> TRUE]

Fields == {"title", "text"}

ArticleDocument(location) ==
  IF location = "a/"
  THEN [location |-> location, title |-> <<"f">>, text |-> <<"b">>,
        tags |-> <<"g">>]
  ELSE [location |-> location, title |-> <<"f">>, text |-> <<"b">>]

SectionDocument(location, parent) ==
  [location |-> location, title |-> <<"f">>, text |-> <<"b">>,
   parent |-> parent]

\* the parent of a section whose article is not indexed: undefined, or a
\* document that is not in the document map
OrphanParent(location, orphan) ==
  IF orphan = "undefined" THEN Undefined ELSE [location |-> Article(location)]

\* setupSearchDocumentMap: the documents by location; the parent of a section
\* is its article
SetupSearchDocumentMap(docs, orphan) ==
  [l \in docs |->
     IF IsSection(l)
     THEN SectionDocument(l, IF Article(l) \in docs
                             THEN [location |-> Article(l)]
                             ELSE OrphanParent(l, orphan))
     ELSE ArticleDocument(l)]

DocumentMaps ==
  { SetupSearchDocumentMap(Locations, "undefined"),
    SetupSearchDocumentMap(Locations \ {"b/"}, "undefined"),
    SetupSearchDocumentMap(Locations \ {"b/"}, "dangling") }

\* the table entry of the one token of a field: offset 0, length 1
FieldTable ==
  <<Or32(Shl(0, FlatStartShift), Shl(1, FlatLengthShift))>>

\* tables[document.location] = {}, and tables[document.location][field] = []
\* filled by the tokenizer, for every indexed document
SetupTables(docs) ==
  [l \in docs |-> [f \in Fields \cup {"tags"} |->
     IF f = "tags" /\ l # "a/" THEN <<>> ELSE FieldTable]]

Queries ==
  { <<>>,
    <<"b">>,
    <<"f", " ", "b">>,
    <<"-", "f", " ", "b">>,
    <<"-", "f">>,
    <<"-">> }

\* the words of a query value: the maximal runs without a space
RECURSIVE Words(_)
Words(q) ==
  IF q = <<>> THEN <<>>
  ELSE IF Head(q) = " " THEN Words(Tail(q))
  ELSE LET n == CHOOSE k \in 1..Len(q) :
                  /\ \A j \in 1..k : q[j] # " "
                  /\ k = Len(q) \/ q[k + 1] = " "
       IN  <<SubSeq(q, 1, n)>> \o Words(SubSeq(q, n + 1, Len(q)))

Clause(word) ==
  IF Head(word) = "-" THEN [term |-> Tail(word), presence |-> "PROHIBITED"]
  ELSE IF Head(word) = "+" THEN [term |-> Tail(word), presence |-> "REQUIRED"]
  ELSE [term |-> word, presence |-> "OPTIONAL"]

\* parseSearchQuery: the clauses of the query; the parser throws when a
\* presence modifier is followed by no term
ParseSearchQuery(q) ==
  LET words == Words(q)
      clauses == [i \in 1..Len(words) |-> Clause(words[i])]
  IN  [threw |-> \E i \in 1..Len(words) : clauses[i].term = <<>>,
       clauses |-> clauses]

\* NotProhibited without the test of the presence: no clause is filtered out
AnyPresence(clause) == TRUE

NotProhibited(clause) == clause.presence # "PROHIBITED"

\* parseSearchQuery(query).filter(clause => clause.presence !== PROHIBITED)
Clauses(q) == SelectSeq(ParseSearchQuery(q).clauses, NotProhibited)

ClauseTerms(clauses) == {clauses[i].term : i \in 1..Len(clauses)}

StartsWith(term, prefix) ==
  Len(prefix) <= Len(term) /\ SubSeq(term, 1, Len(prefix)) = prefix

\* getSearchQueryTerms: for every term of the clauses, whether a matched
\* term of the hit begins with it
GetSearchQueryTerms(clauses, matched) ==
  [t \in ClauseTerms(clauses) |-> \E m \in matched : StartsWith(m, t)]

(***************************************************************************)
(* Search: what the Lunr.js index answers                                  *)
(*                                                                         *)
(* A hit is { ref, score, matchData }: metadata maps each matched term to  *)
(* the field it matched in (at the one token of the field, position 0);    *)
(* every indexed document has the title "f" and the text "b".              *)
(* A score is a fraction n / d; d = 0 is NaN.                              *)
(***************************************************************************)
\* the terms a hit may have matched: some term of the clauses, and none when
\* the query has only prohibited clauses
Matched(clauses) ==
  IF clauses = <<>> THEN {{}} ELSE (SUBSET ClauseTerms(clauses)) \ {{}}

\* the raw scores of the hits: 0 for a query of prohibited clauses only
Scores(clauses) == IF clauses = <<>> THEN {0} ELSE {1, 2}

\* the field of the indexed documents in which a term occurs
FieldOf(term) == IF Head(term) = "f" THEN "title" ELSE "text"

Hits(clauses) ==
  { [ref |-> r, score |-> s, metadata |-> [t \in m |-> FieldOf(t)]] :
      r \in Locations, s \in Scores(clauses), m \in Matched(clauses) }

\* index.query(...) of the suggestions: the matched terms of its hits, best
\* hit first
Titles(clauses) ==
  {<<>>} \cup {<<m>> : m \in Matched(clauses)}
         \cup {<<m, n>> : m \in Matched(clauses), n \in Matched(clauses)}

\* index.search(query) returns hits of distinct documents, by descending
\* score
HitList(hits) ==
  /\ \A i, j \in 1..Len(hits) : i # j => hits[i].ref # hits[j].ref
  /\ \A i \in 1..(Len(hits) - 1) : hits[i].score >= hits[i + 1].score

\* the answers to one call: index.search throws, or returns hits; then the
\* highlighter may throw, or index.query, which is called for the suggestions
IndexAnswer(suggest, idx) ==
  /\ idx.throws = "search" => idx.hits = <<>>
  /\ idx.throws = "query" => suggest
  /\ idx.titles # <<>> => suggest /\ idx.throws = "none"
  /\ Len(idx.hits) + Len(idx.titles) <= MaxHits + 1

(***************************************************************************)
(* Search.search                                                           *)
(***************************************************************************)
IsNaN(score) == score.d = 0

\* b.score - a.score > 0
Greater(b, a) == ~IsNaN(a) /\ ~IsNaN(b) /\ b.n * a.d > a.n * b.d

\* map[field]: the positions of the hit in the field
FieldPositions(hit, field) ==
  [i \in 1..Cardinality({t \in DOMAIN hit.metadata : hit.metadata[t] = field})
     |-> 0]

MatchedFields(hit) == {hit.metadata[t] : t \in DOMAIN hit.metadata}

\* document[field] = highlighter(document[field], tables[...][field], positions)
\* for the fields of map
HighlightFields(document, tbls, hit) ==
  [f \in DOMAIN document |->
     IF f \in MatchedFields(hit)
     THEN FlatHighlighter(document[f], tbls[document.location][f],
                          FieldPositions(hit, f)).value
     ELSE document[f]]

\* +!parent + Object.values(terms).filter(t => t).length /
\* Object.keys(terms).length, as a fraction
Boost(document, terms) ==
  LET article == IF "parent" \in DOMAIN document /\ document.parent # Undefined
                 THEN 0 ELSE 1
      keys == Cardinality(DOMAIN terms)
  IN  [n |-> article * keys + Cardinality({t \in DOMAIN terms : terms[t]}),
       d |-> keys]

\* score * (1 + boost): the boost is not squared
BoostedScoreLinear(score, boost) ==
  [n |-> score * (boost.d + boost.n), d |-> boost.d]

\* score * (1 + boost ** 2)
BoostedScore(score, boost) ==
  [n |-> score * (boost.d * boost.d + boost.n * boost.n),
   d |-> boost.d * boost.d]

\* { ...document, ...tags && { tags }, score, terms }
ResultItem(document, stored, score, terms) ==
  [k \in DOMAIN document \cup {"score", "terms"} |->
     IF k = "score" THEN score
     ELSE IF k = "terms" THEN terms
     ELSE IF k = "tags" THEN stored.tags
     ELSE document[k]]

\* no copy is made: the assignments to the fields edit the document of the map
StoreDocumentInPlace(docs, ref, document) == [docs EXCEPT ![ref] = document]

\* the copy is made after the text was assigned: the highlighted text goes to
\* the document of the map
StoreDocumentText(docs, ref, document) ==
  [docs EXCEPT ![ref] = [@ EXCEPT !.text = document.text]]

\* document = { ...document }: the assignments to the fields go to the copy,
\* the document of the map keeps its values
StoreDocument(docs, ref, document) == docs

\* PostQuery without the test typeof document !== "undefined": a hit whose
\* document is not in the map makes the callback throw
PostQueryStaleThrows(acc, tbls, clauses, hit, throws) ==
  IF acc.threw THEN acc
  ELSE IF hit.ref \notin DOMAIN acc.documents
          \/ (MatchedFields(hit) # {} /\ throws = "highlighter")
  THEN [acc EXCEPT !.threw = TRUE]
  ELSE LET stored == acc.documents[hit.ref]
           document == HighlightFields(stored, tbls, hit)
           terms == GetSearchQueryTerms(clauses, DOMAIN hit.metadata)
       IN  [threw |-> FALSE,
            documents |-> StoreDocument(acc.documents, hit.ref, document),
            item |-> Append(acc.item,
                       ResultItem(document, stored,
                         BoostedScore(hit.score, Boost(document, terms)),
                         terms))]

\* the callback of the first reduce: post-query boosts and highlighting
PostQuery(acc, tbls, clauses, hit, throws) ==
  IF acc.threw \/ hit.ref \notin DOMAIN acc.documents THEN acc
  ELSE IF MatchedFields(hit) # {} /\ throws = "highlighter"
  THEN [acc EXCEPT !.threw = TRUE]
  ELSE LET stored == acc.documents[hit.ref]
           document == HighlightFields(stored, tbls, hit)
           terms == GetSearchQueryTerms(clauses, DOMAIN hit.metadata)
       IN  [threw |-> FALSE,
            documents |-> StoreDocument(acc.documents, hit.ref, document),
            item |-> Append(acc.item,
                       ResultItem(document, stored,
                         BoostedScore(hit.score, Boost(document, terms)),
                         terms))]

RECURSIVE PostQueryAll(_, _, _, _, _)
PostQueryAll(acc, tbls, clauses, hits, throws) ==
  IF hits = <<>> THEN acc
  ELSE PostQueryAll(PostQuery(acc, tbls, clauses, Head(hits), throws),
                    tbls, clauses, Tail(hits), throws)

\* .sort((a, b) => b.score - a.score): stable; a NaN difference counts as 0
RECURSIVE InsertByScore(_, _)
InsertByScore(sorted, item) ==
  IF sorted = <<>> THEN <<item>>
  ELSE IF Greater(item.score, Head(sorted).score) THEN <<item>> \o sorted
  ELSE <<Head(sorted)>> \o InsertByScore(Tail(sorted), item)

\* no sort after the boosts: the entries stay in the order of the hits
SortByScoreNone(items) == items

RECURSIVE SortByScore(_)
SortByScore(items) ==
  IF items = <<>> THEN <<>>
  ELSE InsertByScore(SortByScore(SubSeq(items, 1, Len(items) - 1)),
                     items[Len(items)])

\* items.set(ref, [...items.get(ref) || [], result]): a Map keeps the order
\* in which its keys were first set
SetGroup(groups, ref, item) ==
  IF \E i \in 1..Len(groups) : groups[i].ref = ref
  THEN [i \in 1..Len(groups) |->
          IF groups[i].ref = ref
          THEN [groups[i] EXCEPT !.items = Append(@, item)]
          ELSE groups[i]]
  ELSE Append(groups, [ref |-> ref, items |-> <<item>>])

\* the callback of the second reduce: group the results by article; reading
\* the location of a parent that is undefined throws
GroupByArticle(acc, docs, item) ==
  IF acc.threw \/ item.location \notin DOMAIN docs THEN acc
  ELSE LET document == docs[item.location]
       IN  IF "parent" \in DOMAIN document
           THEN IF document.parent = Undefined
                THEN [acc EXCEPT !.threw = TRUE]
                ELSE [acc EXCEPT
                        !.groups = SetGroup(@, document.parent.location, item)]
           ELSE [acc EXCEPT !.groups = SetGroup(@, document.location, item)]

RECURSIVE GroupAll(_, _, _)
GroupAll(acc, docs, items) ==
  IF items = <<>> THEN acc
  ELSE GroupAll(GroupByArticle(acc, docs, Head(items)), docs, Tail(items))

\* { ...document, score: 0, terms: {} } of this.documents.get(ref)!
ArticleItem(docs, ref) ==
  IF ref \in DOMAIN docs
  THEN [k \in DOMAIN docs[ref] \cup {"score", "terms"} |->
          IF k = "score" THEN [n |-> 0, d |-> 1]
          ELSE IF k = "terms" THEN <<>>
          ELSE docs[ref][k]]
  ELSE [score |-> [n |-> 0, d |-> 1], terms |-> <<>>]

\* the test for the article looks at the best item of the set only
EnsureArticleFirst(docs, group) ==
  IF group.items[1].location = group.ref
  THEN group
  ELSE [group EXCEPT !.items = Append(@, ArticleItem(docs, group.ref))]

\* ensure that every item set has an article
EnsureArticle(docs, group) ==
  IF \E i \in 1..Len(group.items) : group.items[i].location = group.ref
  THEN group
  ELSE [group EXCEPT !.items = Append(@, ArticleItem(docs, group.ref))]

\* return { items: [] }
Nothing(docs) == [documents |-> docs, result |-> [items |-> <<>>],
                  asked |-> NotAsked, spc |-> "nothing"]

\* the clauses of the suggestion query keep the presence of the user's clause
SuggestionQueryPresence(clauses) ==
  [i \in 1..Len(clauses) |->
     [term |-> clauses[i].term, fields |-> {"title"},
      presence |-> clauses[i].presence, wildcard |-> "TRAILING"]]

\* builder.term(clause.term, { fields: ["title"], presence: REQUIRED,
\* wildcard: TRAILING }) for every clause
SuggestionQuery(clauses) ==
  [i \in 1..Len(clauses) |->
     [term |-> clauses[i].term, fields |-> {"title"},
      presence |-> "REQUIRED", wildcard |-> "TRAILING"]]

\* return { items: [...groups.values()], ...suggestions }
Items(docs, groups, suggest, titles) ==
  LET items == [i \in 1..Len(groups) |-> EnsureArticle(docs, groups[i]).items]
  IN  [documents |-> docs,
       result |-> IF suggest
                  THEN [items |-> items,
                        suggestions |-> IF titles # <<>> THEN titles[1] ELSE {}]
                  ELSE [items |-> items],
       asked |-> NotAsked,
       spc |-> "returned"]

\* Search.search(query), with the answers idx of the index: the document map
\* afterwards, the result and the return statement reached
SearchCall(docs, tbls, opts, q, idx) ==
  IF q = <<>> \/ ParseSearchQuery(q).threw \/ idx.throws = "search"
  THEN Nothing(docs)
  ELSE LET hits == PostQueryAll([threw |-> FALSE, documents |-> docs,
                                 item |-> <<>>],
                                tbls, Clauses(q), idx.hits, idx.throws)
           grouped == GroupAll([threw |-> FALSE, groups |-> <<>>],
                               hits.documents, SortByScore(hits.item))
           builder == IF opts.suggestions
                      THEN [called |-> TRUE,
                            clauses |-> SuggestionQuery(Clauses(q))]
                      ELSE NotAsked
       IN  IF hits.threw \/ grouped.threw
           THEN Nothing(hits.documents)
           ELSE IF opts.suggestions /\ idx.throws = "query"
           THEN [Nothing(hits.documents) EXCEPT !.asked = builder]
           ELSE [Items(hits.documents, grouped.groups, opts.suggestions,
                       idx.titles) EXCEPT !.asked = builder]

(***************************************************************************)
(* Search: the calls                                                       *)
(***************************************************************************)
\* new Search({ config, docs, options })
SearchInit ==
  /\ TokIdle
  /\ ConstructorIdle
  /\ ProtocolIdle
  /\ ComponentsIdle
  /\ documents \in DocumentMaps
  /\ tables = SetupTables(DOMAIN documents)
  /\ options \in [suggestions : BOOLEAN]
  /\ query = <<>>
  /\ index = NoIndex
  /\ asked = NotAsked
  /\ result = NoResult
  /\ spc = "idle"

\* search.search(query)
Search ==
  /\ spc = "idle"
  /\ \E q \in Queries :
       IF q = <<>> \/ ParseSearchQuery(q).threw
       THEN LET call == SearchCall(documents, tables, options, q, NoIndex)
            IN  /\ query' = q
                /\ index' = NoIndex
                /\ asked' = call.asked
                /\ documents' = call.documents
                /\ result' = call.result
                /\ spc' = call.spc
       ELSE \E n \in 0..MaxHits : \E hits \in [1..n -> Hits(Clauses(q))] :
              /\ HitList(hits)
              /\ \E throws \in {"none", "search", "highlighter", "query"} :
                 \E titles \in Titles(Clauses(q)) :
                   LET idx == [throws |-> throws, hits |-> hits,
                               titles |-> titles]
                       call == SearchCall(documents, tables, options, q, idx)
                   IN  /\ IndexAnswer(options.suggestions, idx)
                       /\ query' = q
                       /\ index' = idx
                       /\ asked' = call.asked
                       /\ documents' = call.documents
                       /\ result' = call.result
                       /\ spc' = call.spc
  /\ UNCHANGED <<tables, options>>
  /\ UNCHANGED <<tokVars, constructorVars, protocolVars, componentVars>>

\* the caller has taken the result; the Search object stays as it is
Taken ==
  /\ spc # "idle"
  /\ query' = <<>>
  /\ index' = NoIndex
  /\ asked' = NotAsked
  /\ result' = NoResult
  /\ spc' = "idle"
  /\ UNCHANGED <<documents, tables, options>>
  /\ UNCHANGED <<tokVars, constructorVars, protocolVars, componentVars>>

SearchNext ==
  \/ Search
  \/ Taken

SpecSearch == SearchInit /\ [][SearchNext]_vars

(***************************************************************************)
(* Search: the constructor                                                 *)
(*                                                                         *)
(* A function of a pipeline is [owner, stage]: the stage of a language, or *)
(* the trimmer that lunr.multiLanguage generates for its languages (owner  *)
(* "multi").  An index document is a record with location, title and text *)
(* (the empty string when it has none) and, optionally, tags.              *)
(***************************************************************************)
Languages == {"en", "de"}

Stages == <<"trimmer", "stopWordFilter", "stemmer">>

StageNames == {Stages[i] : i \in 1..Len(Stages)}

\* config.lang: the lists of at most MaxLangs languages
LangLists == UNION {[1..k -> Languages] : k \in 0..MaxLangs}

\* a document of the search index, with or without title and tags
IndexDocuments ==
  { [location |-> "a/", title |-> <<"f">>, text |-> <<"b">>, tags |-> <<"g">>],
    [location |-> "a/#s", title |-> <<>>, text |-> <<"b">>],
    [location |-> "b/", title |-> <<"f">>, text |-> <<>>] }

\* docs: the lists of at most MaxDocs documents
DocLists == UNION {[1..k -> IndexDocuments] : k \in 0..MaxDocs}

\* the pipelines of a new lunr.Builder
BuilderPipeline ==
  <<[owner |-> "en", stage |-> "trimmer"],
    [owner |-> "en", stage |-> "stopWordFilter"],
    [owner |-> "en", stage |-> "stemmer"]>>

BuilderSearchPipeline == <<[owner |-> "en", stage |-> "stemmer"]>>

\* this.use(lunr[language]): both pipelines are reset to the stages of the
\* language
LanguagePipeline(language) ==
  [i \in 1..Len(Stages) |-> [owner |-> language, stage |-> Stages[i]]]

LanguageSearchPipeline(language) ==
  <<[owner |-> language, stage |-> "stemmer"]>>

\* this.use(lunr.multiLanguage(...lang)): the stop word filter of every
\* language is put in front, its stemmer at the end, and the generated
\* trimmer in front of all
RECURSIVE MultiLanguageStages(_, _)
MultiLanguageStages(lang, acc) ==
  IF lang = <<>> THEN acc
  ELSE MultiLanguageStages(Tail(lang),
         <<[owner |-> Head(lang), stage |-> "stopWordFilter"]>> \o acc
           \o <<[owner |-> Head(lang), stage |-> "stemmer"]>>)

MultiLanguagePipeline(lang) ==
  <<[owner |-> "multi", stage |-> "trimmer"]>> \o MultiLanguageStages(lang, <<>>)

MultiLanguageSearchPipeline(lang) ==
  [i \in 1..Len(lang) |-> [owner |-> lang[i], stage |-> "stemmer"]]

\* difference(["trimmer", "stopWordFilter", "stemmer"], options.pipeline)
Difference(a, b) == SelectSeq(a, LAMBDA x : x \notin b)

\* lunr.Pipeline.prototype.remove: the first occurrence of fn is taken out
PipelineRemove(stack, fn) ==
  IF \E i \in 1..Len(stack) : stack[i] = fn
  THEN LET at == CHOOSE i \in 1..Len(stack) :
                   stack[i] = fn /\ \A j \in 1..(i - 1) : stack[j] # fn
       IN  SubSeq(stack, 1, at - 1) \o SubSeq(stack, at + 1, Len(stack))
  ELSE stack

\* every language is taken for English
PipelineLanguageEn(language) == "en"

\* language === "en" ? lunr : lunr[language]
PipelineLanguage(language) == language

\* for (const fn of fns) { pipeline.remove(lang[fn]) }
RECURSIVE RemoveStages(_, _, _)
RemoveStages(stack, language, fns) ==
  IF fns = <<>> THEN stack
  ELSE RemoveStages(PipelineRemove(stack, [owner |-> PipelineLanguage(language),
                                           stage |-> Head(fns)]),
                    language, Tail(fns))

\* the table is allocated only for a field that the document has
ExtractorIfPresent(tbls, document, field) ==
  IF field \in DOMAIN document /\ document[field] # <<>>
  THEN [tbls EXCEPT ![document.location] =
          [f \in DOMAIN @ \cup {field} |-> IF f = field THEN FieldTable ELSE @[f]]]
  ELSE tbls

\* extractor(field)(document): tables[document.location][field] = [], which
\* the tokenizer fills when the document has the field
Extractor(tbls, document, field) ==
  [tbls EXCEPT ![document.location] =
     [f \in DOMAIN @ \cup {field} |->
        IF f = field
        THEN IF field \in DOMAIN document /\ document[field] # <<>>
             THEN FieldTable ELSE <<>>
        ELSE @[f]]]

\* tables[document.location] = {} and this.add(document): the extractors of
\* the fields title, text and tags are called in this order
AddDocument(tbls, document) ==
  LET fresh == [l \in DOMAIN tbls \cup {document.location} |->
                  IF l = document.location THEN <<>> ELSE tbls[l]]
  IN  Extractor(Extractor(Extractor(fresh, document, "title"),
                          document, "text"),
                document, "tags")

\* new Search({ config, indexDocs, options }), before the first statement
ConstructorInit ==
  /\ TokIdle
  /\ ProtocolIdle
  /\ ComponentsIdle
  /\ config \in [lang : LangLists]
  /\ indexDocs \in DocLists
  /\ options \in [suggestions : {FALSE}, pipeline : SUBSET StageNames]
  /\ documents = <<>>
  /\ tables = <<>>
  /\ query = <<>>
  /\ index = NoIndex
  /\ asked = NotAsked
  /\ result = NoResult
  /\ spc = "idle"
  /\ pipeline = <<>>
  /\ searchPipeline = <<>>
  /\ cpc = "new"
  /\ ci = 0

\* this.tables = {}, the document map, and the new builder
ConstructorSetup ==
  /\ cpc = "new"
  /\ documents' = SetupSearchDocumentMap({indexDocs[i].location : i \in 1..Len(indexDocs)},
                                         "undefined")
  /\ pipeline' = BuilderPipeline
  /\ searchPipeline' = BuilderSearchPipeline
  /\ cpc' = "use"
  /\ UNCHANGED <<tables, options, query, index, asked, result, spc>>
  /\ UNCHANGED <<config, indexDocs, ci>>
  /\ UNCHANGED <<tokVars, protocolVars, componentVars>>

\* set up (multi-)language support
ConstructorUse ==
  /\ cpc = "use"
  /\ IF Len(config.lang) = 1 /\ config.lang[1] # "en"
     THEN /\ pipeline' = LanguagePipeline(config.lang[1])
          /\ searchPipeline' = LanguageSearchPipeline(config.lang[1])
     ELSE IF Len(config.lang) > 1
     THEN /\ pipeline' = MultiLanguagePipeline(config.lang)
          /\ searchPipeline' = MultiLanguageSearchPipeline(config.lang)
     ELSE UNCHANGED <<pipeline, searchPipeline>>
  /\ cpc' = "remove"
  /\ ci' = 1
  /\ UNCHANGED searchVars
  /\ UNCHANGED <<config, indexDocs>>
  /\ UNCHANGED <<tokVars, protocolVars, componentVars>>

\* remove functions from the pipeline for registered languages: one
\* iteration of the loop over the languages, and its exit
ConstructorRemove ==
  /\ cpc = "remove"
  /\ IF ci <= Len(config.lang)
     THEN LET fns == Difference(Stages, options.pipeline)
          IN  /\ pipeline' = RemoveStages(pipeline, config.lang[ci], fns)
              /\ searchPipeline' =
                   RemoveStages(searchPipeline, config.lang[ci], fns)
              /\ ci' = ci + 1
              /\ UNCHANGED cpc
     ELSE /\ cpc' = "add"
          /\ ci' = 1
          /\ UNCHANGED <<pipeline, searchPipeline>>
  /\ UNCHANGED searchVars
  /\ UNCHANGED <<config, indexDocs>>
  /\ UNCHANGED <<tokVars, protocolVars, componentVars>>

\* index documents: one iteration of the loop over indexDocs, and its exit
ConstructorAdd ==
  /\ cpc = "add"
  /\ IF ci <= Len(indexDocs)
     THEN /\ tables' = AddDocument(tables, indexDocs[ci])
          /\ ci' = ci + 1
          /\ UNCHANGED cpc
     ELSE /\ cpc' = "done"
          /\ UNCHANGED <<tables, ci>>
  /\ UNCHANGED <<documents, options, query, index, asked, result, spc>>
  /\ UNCHANGED <<config, indexDocs, pipeline, searchPipeline>>
  /\ UNCHANGED <<tokVars, protocolVars, componentVars>>

ConstructorNext ==
  \/ ConstructorSetup
  \/ ConstructorUse
  \/ ConstructorRemove
  \/ ConstructorAdd

SpecConstructor == ConstructorInit /\ [][ConstructorNext]_vars

(***************************************************************************)
(* Instant navigation: fetching and parsing                                *)
(*                                                                         *)
(* A location is [pathname, hash].  A request is the location it fetches   *)
(* and the number of the navigation that started it; a response and a      *)
(* document carry the request they answer.                                 *)
(***************************************************************************)
Pathnames == {"/", "/a/", "/b/"}

Hashes == {"", "#x"}

Locations2 == [pathname : Pathnames, hash : Hashes]

\* getLocation() at the time setupInstantNavigation runs; the buffer of
\* distinctUntilKeyChanged is pre-warmed with it (startWith, skip(1))
InstantInit ==
  /\ CoreIdle
  /\ TabsIdle
  /\ TooltipIdle
  /\ SegmenterIdle
  /\ previous \in Locations2
  /\ buffer = previous.pathname
  /\ request = None
  /\ response = None
  /\ loading = None
  /\ requested = None
  /\ delivered = <<>>
  /\ navigations = 0
  /\ reloaded = FALSE

\* distinctUntilKeyChanged("pathname")
DistinctUntilKeyChanged(key, url) == url.pathname # key

\* location$ emits url: when it passes the duplicate check, switchMap
\* unsubscribes from the request in flight and starts request(url)
LocationNext(url) ==
  /\ ~reloaded
  /\ navigations < MaxNavigations
  /\ navigations' = navigations + 1
  /\ previous' = url
  /\ IF DistinctUntilKeyChanged(buffer, url)
     THEN /\ buffer' = url.pathname
          /\ request' = [url |-> url, n |-> navigations + 1]
          /\ requested' = [url |-> url, n |-> navigations + 1]
     ELSE UNCHANGED <<buffer, request, requested>>
  /\ UNCHANGED <<response, loading, delivered, reloaded>>
  /\ UNCHANGED <<coreVars, tabsVars, tooltipVars, segmenterVars>>

\* the request in flight is answered: response$ emits, and the switchMap over
\* res.text() drops the text it was waiting for
RequestLoaded ==
  /\ ~reloaded
  /\ request # None
  /\ response' = request
  /\ request' = None
  /\ UNCHANGED <<previous, buffer, loading, requested, delivered,
                 navigations, reloaded>>
  /\ UNCHANGED <<coreVars, tabsVars, tooltipVars, segmenterVars>>

\* the request in flight fails: catchError sets the location, which
\* force-loads the page
RequestFailed ==
  /\ ~reloaded
  /\ request # None
  /\ request' = None
  /\ reloaded' = TRUE
  /\ UNCHANGED <<previous, buffer, response, loading, requested, delivered,
                 navigations>>
  /\ UNCHANGED <<coreVars, tabsVars, tooltipVars, segmenterVars>>

\* res.text() resolves: the document is parsed and the components replaced;
\* the document is emitted at once, or after its last script has loaded; a
\* document that was waiting for its scripts is dropped
TextResolved ==
  /\ ~reloaded
  /\ response # None
  /\ response' = None
  /\ \/ /\ delivered' = Append(delivered, response)
        /\ loading' = None
     \/ /\ loading' = response
        /\ UNCHANGED delivered
  /\ UNCHANGED <<previous, buffer, request, requested, navigations, reloaded>>
  /\ UNCHANGED <<coreVars, tabsVars, tooltipVars, segmenterVars>>

\* script.onload of the last script: endWith(next) emits the document
ScriptLoaded ==
  /\ ~reloaded
  /\ loading # None
  /\ delivered' = Append(delivered, loading)
  /\ loading' = None
  /\ UNCHANGED <<previous, buffer, request, response, requested, navigations,
                 reloaded>>
  /\ UNCHANGED <<coreVars, tabsVars, tooltipVars, segmenterVars>>

InstantNext ==
  \/ \E url \in Locations2 : LocationNext(url)
  \/ RequestLoaded
  \/ RequestFailed
  \/ TextResolved
  \/ ScriptLoaded

SpecInstant == InstantInit /\ [][InstantNext]_vars

(***************************************************************************)
(* Content tabs                                                            *)
(*                                                                         *)
(* The page has tabbed sets ([data-tabs]); a set is the list of the inner  *)
(* texts of its labels.  storage is the item stored under __tabs: whether  *)
(* there is one, and the list of labels it holds.                          *)
(***************************************************************************)
TabSets ==
  << << <<"a">>, <<"b">> >>,
     << <<" ", "b">>, <<"t">>, <<"b", " ">> >> >>

\* String.prototype.trim
RECURSIVE TrimStart(_)
TrimStart(v) == IF v # <<>> /\ Head(v) = " " THEN TrimStart(Tail(v)) ELSE v

RECURSIVE TrimEnd(_)
TrimEnd(v) ==
  IF v # <<>> /\ v[Len(v)] = " " THEN TrimEnd(SubSeq(v, 1, Len(v) - 1)) ELSE v

Trim(v) == TrimEnd(TrimStart(v))

\* the trimmed labels of the page
TabLabels ==
  UNION {{Trim(TabSets[s][k]) : k \in 1..Len(TabSets[s])} :
           s \in 1..Len(TabSets)}

\* [...new Set(list)]: the elements of the list in the order of their first
\* occurrence
RECURSIVE SetOrder(_, _)
SetOrder(list, acc) ==
  IF list = <<>> THEN acc
  ELSE SetOrder(Tail(list),
                IF \E i \in 1..Len(acc) : acc[i] = Head(list)
                THEN acc ELSE Append(acc, Head(list)))

\* the lists without duplicates of labels of the page
StoredLists ==
  {l \in UNION {[1..k -> TabLabels] : k \in 0..Cardinality(TabLabels)} :
     SetOrder(l, <<>>) = l}

\* the active tab is put at the end of the stored labels
ActiveTabsLast(tab, tabs) == SetOrder(tabs \o <<tab>>, <<>>)

\* [...new Set([tab, ...tabs])]
ActiveTabs(tab, tabs) == SetOrder(<<tab>> \o tabs, <<>>)

\* the first label of the set whose trimmed text is the tab gets checked
CheckLabel(set, tab, now) ==
  IF \E k \in 1..Len(set) : Trim(set[k]) = tab
  THEN CHOOSE k \in 1..Len(set) :
         Trim(set[k]) = tab /\ \A j \in 1..(k - 1) : Trim(set[j]) # tab
  ELSE now

\* the page as it is loaded: the first input of every set is checked, and
\* __tabs holds what an earlier page view has stored, if anything
TabsInit ==
  /\ CoreIdle
  /\ InstantIdle
  /\ TooltipIdle
  /\ SegmenterIdle
  /\ link \in BOOLEAN
  /\ storage \in {NoItem} \cup [item : {TRUE}, value : StoredLists]
  /\ checked = [s \in 1..Len(TabSets) |-> 1]
  /\ active = <<>>
  /\ activations = 0

\* the change event of the input of label k of set s, and the subscriber of
\* internal$
ContentTabsChange(s, k) ==
  /\ activations < MaxActivations
  /\ activations' = activations + 1
  /\ active' = TabSets[s][k]
  /\ IF link
     THEN LET tab == Trim(TabSets[s][k])
              tabs == IF storage.item THEN storage.value ELSE <<>>
          IN  /\ checked' = [t \in 1..Len(TabSets) |->
                               CheckLabel(TabSets[t], tab,
                                          IF t = s THEN k ELSE checked[t])]
              /\ storage' = [item |-> TRUE, value |-> ActiveTabs(tab, tabs)]
     ELSE /\ checked' = [checked EXCEPT ![s] = k]
          /\ UNCHANGED storage
  /\ UNCHANGED link
  /\ UNCHANGED <<coreVars, instantVars, tooltipVars, segmenterVars>>

TabsNext ==
  \E s \in 1..Len(TabSets) : \E k \in 1..Len(TabSets[s]) :
    ContentTabsChange(s, k)

SpecTabs == TabsInit /\ [][TabsNext]_vars

(***************************************************************************)
(* Tooltip                                                                 *)
(*                                                                         *)
(* host is the map of the attributes title and aria-describedby that the   *)
(* host element carries.  focus and hover hold the last value that         *)
(* watchElementFocus and watchElementHover have emitted, if any; debounced *)
(* holds the value that debounceTime(250) holds back, if any.              *)
(***************************************************************************)
Titles2 == {"", "t", "u"}

\* an element with the one attribute
Attribute(name, v) == [a \in {name} |-> v]

\* `__tooltip_${sequence++}`
TooltipId(sequence) == <<"__tooltip_", sequence>>

\* mountTooltip(el) has returned and is not subscribed yet: the tooltip is
\* rendered and not in the document
TooltipInit ==
  /\ CoreIdle
  /\ InstantIdle
  /\ TabsIdle
  /\ SegmenterIdle
  /\ hostTitle \in Titles2
  /\ tooltipId \in {TooltipId(0), TooltipId(1)}
  /\ host = Attribute("title", hostTitle)
  /\ attached = FALSE
  /\ focus = <<>>
  /\ hover = <<>>
  /\ debounced = <<>>
  /\ tpc = "created"
  /\ changes = 0

\* next of the toggle subscriber, active: the title stays on the host
ShowKeepsTitle(attrs, id) ==
  [a \in DOMAIN attrs \cup {"aria-describedby"} |->
     IF a = "aria-describedby" THEN id ELSE attrs[a]]

\* next of the toggle subscriber, active: setAttribute("aria-describedby", id)
\* and removeAttribute("title")
Show(attrs, id) ==
  [a \in (DOMAIN attrs \cup {"aria-describedby"}) \ {"title"} |->
     IF a = "aria-describedby" THEN id ELSE attrs[a]]

\* next of the toggle subscriber, not active, and its complete:
\* removeAttribute("aria-describedby") and setAttribute("title", title)
Hide(attrs, title) ==
  [a \in (DOMAIN attrs \cup {"title"}) \ {"aria-describedby"} |->
     IF a = "title" THEN title ELSE attrs[a]]

\* push$.next(state) for the latest values of focus and hover, once both
\* have emitted (combineLatest): an active state passes the first branch of
\* the merge at once, and every state restarts the timer of debounceTime
PushNext(f, h) ==
  IF f = <<>> \/ h = <<>>
  THEN UNCHANGED <<host, attached, debounced>>
  ELSE LET shown == f[1] \/ h[1]
       IN  /\ debounced' = <<shown>>
           /\ IF shown
              THEN /\ host' = Show(host, tooltipId)
                   /\ attached' = TRUE
              ELSE UNCHANGED <<host, attached>>

\* defer(() => ...): the subscription; a host without title gives EMPTY
TooltipSubscribe ==
  /\ tpc = "created"
  /\ tpc' = IF hostTitle = "" THEN "completed" ELSE "mounted"
  /\ UNCHANGED <<hostTitle, tooltipId, host, attached, focus, hover,
                 debounced, changes>>
  /\ UNCHANGED <<coreVars, instantVars, tabsVars, segmenterVars>>

\* watchElementFocus(host) emits
FocusNext(b) ==
  /\ tpc = "mounted"
  /\ changes < MaxChanges
  /\ changes' = changes + 1
  /\ focus' = <<b>>
  /\ PushNext(focus', hover)
  /\ UNCHANGED <<hostTitle, tooltipId, hover, tpc>>
  /\ UNCHANGED <<coreVars, instantVars, tabsVars, segmenterVars>>

\* watchElementHover(host) emits
HoverNext(b) ==
  /\ tpc = "mounted"
  /\ changes < MaxChanges
  /\ changes' = changes + 1
  /\ hover' = <<b>>
  /\ PushNext(focus, hover')
  /\ UNCHANGED <<hostTitle, tooltipId, focus, tpc>>
  /\ UNCHANGED <<coreVars, instantVars, tabsVars, segmenterVars>>

\* the timer of debounceTime(250) fires: the value held back is emitted, and
\* passes the filter when it is not active
DebounceTime ==
  /\ tpc = "mounted"
  /\ debounced # <<>>
  /\ debounced' = <<>>
  /\ IF debounced[1]
     THEN UNCHANGED <<host, attached>>
     ELSE /\ host' = Hide(host, hostTitle)
          /\ attached' = FALSE
  /\ UNCHANGED <<hostTitle, tooltipId, focus, hover, tpc, changes>>
  /\ UNCHANGED <<coreVars, instantVars, tabsVars, segmenterVars>>

\* the component is unsubscribed or completes: finalize completes push$;
\* debounceTime emits the value it holds back and completes, and the toggle
\* subscriber completes
TooltipFinalize ==
  /\ tpc = "mounted"
  /\ tpc' = "completed"
  /\ debounced' = <<>>
  /\ host' = Hide(host, hostTitle)
  /\ attached' = FALSE
  /\ UNCHANGED <<hostTitle, tooltipId, focus, hover, changes>>
  /\ UNCHANGED <<coreVars, instantVars, tabsVars, segmenterVars>>

TooltipNext ==
  \/ TooltipSubscribe
  \/ \E b \in BOOLEAN : FocusNext(b)
  \/ \E b \in BOOLEAN : HoverNext(b)
  \/ DebounceTime
  \/ TooltipFinalize

SpecTooltip == TooltipInit /\ [][TooltipNext]_vars

(***************************************************************************)
(* Segmenter                                                               *)
(*                                                                         *)
(* trained is the set of the segmenter.  cuts is the set of cuts in the    *)
(* order of insertion, which is the order its iteration visits; cutAt is   *)
(* the place of the iteration in cuts (1-based) and cutJ the j of the      *)
(* inner loop.                                                             *)
(***************************************************************************)
\* the zero-width space, "\u200b"
ZeroWidthSpace == "|"

\* the strings of at most n characters over the characters cs
Strings(cs, n) == UNION {[1..k -> cs] : k \in 0..n}

\* value.split("\u200b")
RECURSIVE SplitAt(_, _, _)
SplitAt(v, c, acc) ==
  IF v = <<>> THEN <<acc>>
  ELSE IF Head(v) = c THEN <<acc>> \o SplitAt(Tail(v), c, <<>>)
  ELSE SplitAt(Tail(v), c, Append(acc, Head(v)))

\* the segments of add: segments[i] for i < segments.length - 1
AddedSegments(v) ==
  LET parts == SplitAt(v, ZeroWidthSpace, <<>>)
  IN  {parts[i] : i \in 1..(Len(parts) - 1)}

\* String(prev) of a prev that is undefined
UndefinedString == <<"u", "n", "d", "e", "f", "i", "n", "e", "d">>

\* String.prototype.endsWith
EndsWith(v, suffix) ==
  Len(suffix) <= Len(v) /\ SubSeq(v, Len(v) - Len(suffix) + 1, Len(v)) = suffix

\* cuts.add(j)
CutsAdd(set, j) ==
  IF \E k \in 1..Len(set) : set[k] = j THEN set ELSE Append(set, j)

\* the segments are returned also when there is none
CutResultBare(segs, v) == segs

\* segments.length ? segments : [value]
CutResult(segs, v) == IF Len(segs) > 0 THEN segs ELSE <<v>>

\* a new segmenter
SegmenterInit ==
  /\ CoreIdle
  /\ InstantIdle
  /\ TabsIdle
  /\ TooltipIdle
  /\ trained = {}
  /\ trainings = 0
  /\ cutValue = <<>>
  /\ segments = <<>>
  /\ cuts = <<>>
  /\ cutAt = 0
  /\ cutJ = 0
  /\ cutReturn = <<>>
  /\ gpc = "train"

\* add(value)
SegmenterAdd(v) ==
  /\ gpc = "train"
  /\ trainings < MaxTrainings
  /\ trainings' = trainings + 1
  /\ trained' = trained \cup AddedSegments(v)
  /\ UNCHANGED <<cutValue, segments, cuts, cutAt, cutJ, cutReturn, gpc>>
  /\ UNCHANGED <<coreVars, instantVars, tabsVars, tooltipVars>>

\* cut(value): segments = [], cuts = new Set([0]), and the loops are entered
SegmenterCut(v) ==
  /\ gpc = "train"
  /\ gpc' = "cut"
  /\ cutValue' = v
  /\ segments' = <<>>
  /\ cuts' = <<0>>
  /\ cutAt' = 1
  /\ cutJ' = 1
  /\ UNCHANGED <<trained, trainings, cutReturn>>
  /\ UNCHANGED <<coreVars, instantVars, tabsVars, tooltipVars>>

\* one iteration of the inner loop
CutInner ==
  /\ gpc = "cut"
  /\ cutAt <= Len(cuts)
  /\ cutJ < Len(cutValue)
  /\ LET i == cuts[cutAt]
         segment == Slice(cutValue, i, cutJ)
         prev == IF segments = <<>> THEN UndefinedString
                 ELSE segments[Len(segments)]
     IN  IF segment \in trained
         THEN IF StartsWith(segment, prev)
              THEN /\ segments' =
                        IF segments = <<>> THEN segments
                        ELSE [segments EXCEPT ![Len(segments)] = segment]
                   /\ cuts' = CutsAdd(cuts, cutJ)
              ELSE IF segments = <<>> \/ ~EndsWith(prev, segment)
              THEN /\ segments' = Append(segments, segment)
                   /\ cuts' = CutsAdd(cuts, cutJ)
              ELSE UNCHANGED <<segments, cuts>>
         ELSE UNCHANGED <<segments, cuts>>
  /\ cutJ' = cutJ + 1
  /\ UNCHANGED <<trained, trainings, cutValue, cutAt, cutReturn, gpc>>
  /\ UNCHANGED <<coreVars, instantVars, tabsVars, tooltipVars>>

\* the inner loop is left: the iteration of cuts goes to its next element
CutOuter ==
  /\ gpc = "cut"
  /\ cutAt <= Len(cuts)
  /\ cutJ >= Len(cutValue)
  /\ cutAt' = cutAt + 1
  /\ cutJ' = IF cutAt + 1 <= Len(cuts) THEN cuts[cutAt + 1] + 1 ELSE cutJ
  /\ UNCHANGED <<trained, trainings, cutValue, segments, cuts, cutReturn, gpc>>
  /\ UNCHANGED <<coreVars, instantVars, tabsVars, tooltipVars>>

\* the iteration of cuts is over: return
CutReturn ==
  /\ gpc = "cut"
  /\ cutAt > Len(cuts)
  /\ cutReturn' = CutResult(segments, cutValue)
  /\ gpc' = "returned"
  /\ UNCHANGED <<trained, trainings, cutValue, segments, cuts, cutAt, cutJ>>
  /\ UNCHANGED <<coreVars, instantVars, tabsVars, tooltipVars>>

CutRun == CutInner \/ CutOuter \/ CutReturn

SegmenterNext ==
  \/ \E v \in Strings({"a", "b", ZeroWidthSpace}, MaxValue) : SegmenterAdd(v)
  \/ \E v \in Strings({"a", "b"}, MaxValue) : SegmenterCut(v)
  \/ CutInner
  \/ CutOuter
  \/ CutReturn

\* a call of cut runs until it returns or loops for ever: it is never
\* suspended
SpecSegmenter ==
  SegmenterInit /\ [][SegmenterNext]_vars /\ WF_vars(CutRun)

(***************************************************************************)
(* Search query and search result: the messages to and from the worker     *)
(*                                                                         *)
(* A value of the query element is the sequence of its characters.  A      *)
(* QUERY message is known by its place in issued; the worker answers each  *)
(* QUERY message with one result message, and nothing in the handler       *)
(* { tx$, rx$ } fixes the order in which the answers arrive.               *)
(***************************************************************************)
QueryValues == {<<>>, <<"a">>, <<"b">>}

\* distinctUntilKeyChanged("value"), then tx$.next({ type: QUERY, data })
Push(v) ==
  /\ issued' = Append(issued, v)
  /\ outstanding' = outstanding \cup {Len(issued) + 1}

\* an event of value$: switchMapTo(index$) waits for the index, then
\* el.value passes distinctUntilChanged and is pushed
ValueEvent(v) ==
  IF ~fetched
  THEN /\ waiting' = TRUE
       /\ UNCHANGED <<emitted, issued, outstanding>>
  ELSE /\ waiting' = FALSE
       /\ IF v = emitted
          THEN UNCHANGED <<emitted, issued, outstanding>>
          ELSE /\ emitted' = v
               /\ Push(v)

ProtocolInit ==
  /\ TokIdle
  /\ SearchIdle
  /\ ConstructorIdle
  /\ ComponentsIdle
  /\ el = <<>>
  /\ fetched = FALSE
  /\ ready = FALSE
  /\ waiting = FALSE
  /\ emitted = NoValue
  /\ issued = <<>>
  /\ outstanding = {}
  /\ displayed = 0

\* fromEvent(el, "keyup"): the user has edited the query
KeyUp ==
  /\ Len(issued) < MaxQueries
  /\ \E v \in QueryValues :
       /\ el' = v
       /\ ValueEvent(v)
  /\ UNCHANGED <<fetched, ready, displayed>>
  /\ UNCHANGED <<tokVars, searchVars, constructorVars, componentVars>>

\* fromEvent(el, "focus").pipe(delay(1))
Focus ==
  /\ Len(issued) < MaxQueries
  /\ ValueEvent(el)
  /\ UNCHANGED <<el, fetched, ready, displayed>>
  /\ UNCHANGED <<tokVars, searchVars, constructorVars, componentVars>>

\* index$ emits the search index: a waiting event of value$ goes on
IndexFetched ==
  /\ ~fetched
  /\ fetched' = TRUE
  /\ waiting' = FALSE
  /\ IF waiting
     THEN /\ emitted' = el
          /\ Push(el)
     ELSE UNCHANGED <<emitted, issued, outstanding>>
  /\ UNCHANGED <<el, ready, displayed>>
  /\ UNCHANGED <<tokVars, searchVars, constructorVars, componentVars>>

\* the READY message arrives on rx$: param$ emits the query parameter q,
\* which is written to el when it is not empty
Ready ==
  /\ ~ready
  /\ ready' = TRUE
  /\ \E q \in QueryValues :
       LET v == IF q # <<>> THEN q ELSE el
       IN  /\ el' = v
           /\ ValueEvent(v)
  /\ UNCHANGED <<fetched, displayed>>
  /\ UNCHANGED <<tokVars, searchVars, constructorVars, componentVars>>

\* a result message arrives on rx$: its items are applied to the list
Result ==
  /\ \E i \in outstanding :
       /\ outstanding' = outstanding \ {i}
       /\ displayed' = i
  /\ UNCHANGED <<el, fetched, ready, waiting, emitted, issued>>
  /\ UNCHANGED <<tokVars, searchVars, constructorVars, componentVars>>

ProtocolNext ==
  \/ KeyUp
  \/ Focus
  \/ IndexFetched
  \/ Ready
  \/ Result

SpecProtocol == ProtocolInit /\ [][ProtocolNext]_vars

(***************************************************************************)
(* Vocabulary of the properties                                            *)
(***************************************************************************)
\* offset i of v lies in a tag: a "<" at or before i has no ">" between it and i
InTag(v, i) ==
  \E p \in 0..i : CharAt(v, p) = "<" /\ \A k \in p..(i - 1) : CharAt(v, k) # ">"

\* every "<" is closed by a ">" before the next "<", and ">" only ends a tag
WellFormed(v) ==
  /\ \A p \in 0..(Len(v) - 1) : CharAt(v, p) = "<" =>
       \E q \in (p + 1)..(Len(v) - 1) :
         /\ CharAt(v, q) = ">"
         /\ \A k \in (p + 1)..(q - 1) : CharAt(v, k) \notin {"<", ">"}
  /\ \A q \in 0..(Len(v) - 1) : CharAt(v, q) = ">" => q > 0 /\ InTag(v, q)

HasChar(v, c) == \E i \in 1..Len(v) : v[i] = c

TokenSet == {tokens[k] : k \in 1..Len(tokens)}

\* the offsets at which w occurs in v
Occurrences(v, w) ==
  {i \in 0..(Len(v) - Len(w)) : Slice(v, i, i + Len(w)) = w}

\* v with every <mark> and </mark> removed
Strip(v) ==
  LET gone == UNION ({i..(i + Len(Mark) - 1) : i \in Occurrences(v, Mark)} \cup
                     {i..(i + Len(EndMark) - 1) : i \in Occurrences(v, EndMark)})
      kept == (0..(Len(v) - 1)) \ gone
  IN  [k \in 1..Cardinality(kept) |->
         CharAt(v, CHOOSE i \in kept : Cardinality({j \in kept : j <= i}) = k)]

\* v with each of the spans wrapped once, the spans being [from, to] records
\* that do not overlap
RECURSIVE WrapSpans(_, _)
WrapSpans(v, spans) ==
  IF spans = {} THEN v
  ELSE LET last == CHOOSE x \in spans : \A y \in spans : y.from <= x.from
       IN  WrapSpans(Wrap(v, last.from, last.to - last.from), spans \ {last})

MatchedSpans ==
  {[from |-> tokens[matches[k]].from, to |-> tokens[matches[k]].to] :
     k \in 1..Len(matches)}

\* decoded offset and length of position index i
DecodedOffset(i) ==
  IF variant = "block" THEN BlockOffset(table, i) ELSE FlatOffset(table, i)

DecodedLength(i) ==
  IF variant = "block" THEN BlockLength(table, i) ELSE FlatLength(table, i)

\* the position indices is ordered by descending decoded offset
RECURSIVE InsertByOffset(_, _)
InsertByOffset(sorted, i) ==
  IF sorted = <<>> THEN <<i>>
  ELSE IF DecodedOffset(Head(sorted)) >= DecodedOffset(i)
  THEN <<Head(sorted)>> \o InsertByOffset(Tail(sorted), i)
  ELSE <<i>> \o sorted

RECURSIVE SortByOffset(_)
SortByOffset(is) ==
  IF is = <<>> THEN <<>>
  ELSE InsertByOffset(SortByOffset(SubSeq(is, 1, Len(is) - 1)), is[Len(is)])

\* the markers inserted one position after the other, in the given order
RECURSIVE WrapInOrder(_, _)
WrapInOrder(v, is) ==
  IF is = <<>> THEN v
  ELSE WrapInOrder(Wrap(v, DecodedOffset(Head(is)), DecodedLength(Head(is))),
                   Tail(is))

\* the orderings of a list
Orderings(ms) ==
  {[k \in 1..Len(ms) |-> ms[f[k]]] :
     f \in {g \in [1..Len(ms) -> 1..Len(ms)] :
              \A i, j \in 1..Len(ms) : i # j => g[i] # g[j]}}

(***************************************************************************)
(* Properties of the tokenizers and highlighters                           *)
(***************************************************************************)

\* C1: block-table tokenizer: the position of every emitted token decodes
\* (block = index >> 16, entry = table[block].data[index & 0xFFFF], offset =
\* entry >> 8, length = entry & 0xFF) to a range inside the input whose
\* lowercased slice is the token's text.
C1_RoundTrip ==
  (variant = "block" /\ pc = "tokenized") =>
    \A t \in TokenSet :
      /\ Shr(t.index, BlockIndexShift) \in DOMAIN table
      /\ BlockOffset(table, t.index) >= 0
      /\ BlockOffset(table, t.index) + BlockLength(table, t.index) <= Len(value)
      /\ ToLowerCase(Slice(value, BlockOffset(table, t.index),
                           BlockOffset(table, t.index)
                             + BlockLength(table, t.index))) = t.text

\* every section of the document map has its parent article in the map
ParentsPresent ==
  \A l \in DOMAIN documents :
    "parent" \in DOMAIN documents[l] =>
      /\ documents[l].parent # Undefined
      /\ documents[l].parent.location \in DOMAIN documents

LocationOf(item) == IF "location" \in DOMAIN item THEN item.location ELSE ""

IsSectionOf(item, article) ==
  /\ "parent" \in DOMAIN item
  /\ item.parent # Undefined
  /\ item.parent.location = article

IsHit(location) == \E h \in DOMAIN index.hits : index.hits[h].ref = location

\* the group is that of the article: one entry is the article, synthesized
\* when the article is no hit, and the other entries are sections of it
GroupOf(group, article) ==
  /\ Cardinality({i \in DOMAIN group : LocationOf(group[i]) = article}) = 1
  /\ \A i \in DOMAIN group :
       IF LocationOf(group[i]) = article
       THEN /\ "parent" \notin DOMAIN group[i]
            /\ ~IsHit(article) =>
                 /\ group[i].score.n = 0 /\ group[i].score.d # 0
                 /\ group[i].terms = <<>>
       ELSE IsSectionOf(group[i], article)

\* C2: when every section's parent article is in the document map, every
\* group of the items Search.search returns has exactly one entry at the
\* location of the group's article, synthesized with score 0 and no terms
\* when the article was not a hit, and all its other entries are sections
\* of that article.
C2_Grouping ==
  (spc = "returned" /\ ParentsPresent) =>
    \A g \in DOMAIN result.items :
      \E article \in Locations : GroupOf(result.items[g], article)

\* a section is a hit and its article is not: the group holds both
C2_Witness ==
  /\ spc = "returned" /\ ParentsPresent
  /\ \E g \in DOMAIN result.items :
       /\ Len(result.items[g]) = 2
       /\ IsSectionOf(result.items[g][1], "a/")
       /\ result.items[g][1].score.n > 0
       /\ result.items[g][2].location = "a/"
       /\ ~IsHit("a/")

\* a hit whose document is in the map and that matched in some field
Highlighted(hit) == hit.ref \in DOMAIN documents /\ DOMAIN hit.metadata # {}

\* a step of the call throws: the parser, index.search, the highlighter,
\* the read of the location of an undefined parent, or index.query
Throws ==
  \/ ParseSearchQuery(query).threw
  \/ index.throws = "search"
  \/ index.throws = "highlighter"
       /\ \E h \in DOMAIN index.hits : Highlighted(index.hits[h])
  \/ \E h \in DOMAIN index.hits :
       /\ index.hits[h].ref \in DOMAIN documents
       /\ "parent" \in DOMAIN documents[index.hits[h].ref]
       /\ documents[index.hits[h].ref].parent = Undefined
  \/ index.throws = "query" /\ options.suggestions

\* C3: Search.search always returns; for the empty query and whenever a step
\* inside it throws it returns exactly { items: [] }, without suggestions,
\* and leaves the document map and the position tables as they were.
C3_NothingOnFailure ==
  [][(spc = "idle" /\ spc' # "idle") =>
       /\ spc' \in {"returned", "nothing"}
       /\ (query' = <<>> \/ Throws') =>
            /\ spc' = "nothing"
            /\ result' = [items |-> <<>>]
            /\ documents' = documents
            /\ tables' = tables]_vars

\* index.query throws after a hit was highlighted, with suggestions on
C3_Witness ==
  /\ spc = "nothing"
  /\ options.suggestions /\ index.throws = "query"
  /\ \E h \in DOMAIN index.hits : Highlighted(index.hits[h])
  /\ result = [items |-> <<>>]

\* C4: once every QUERY message is answered, in whatever order the answers
\* arrived, the list shows the result of the last issued query: the answer
\* to an earlier query does not replace it.
C4_LastIssuedWins ==
  (issued # <<>> /\ outstanding = {}) => displayed = Len(issued)

\* C5: for an input whose tags are well formed, no token of the block-table
\* or the flat packed tokenizer contains "<" or ">", and no token is cut from
\* a range that touches a tag.
C5_TagExclusion ==
  (variant \in {"block", "flat"} /\ WellFormed(value)) =>
    \A t \in TokenSet :
      /\ ~HasChar(t.text, "<")
      /\ ~HasChar(t.text, ">")
      /\ t.from < t.to
      /\ t.text = ToLowerCase(Slice(value, t.from, t.to))
      /\ \A i \in t.from..(t.to - 1) : ~InTag(value, i)

\* C5 witness: both tokens around a well-formed tag have been emitted
C5_Witness ==
  /\ variant = "flat" /\ pc = "tokenized"
  /\ WellFormed(value) /\ HasChar(value, "<")
  /\ Len(tokens) >= 2

\* C6: prototype tokenizer: the scan for the closing ">" stops at the end of
\* the string.
C6_ScanStopsAtEnd ==
  (variant = "proto" /\ pc = "scan") => proto.end <= Len(value)

\* C7: flat packed tokenizer: after a zero-width match of the separator the
\* next match attempt starts at least one character further.
C7_ZeroWidthAdvances ==
  (variant = "flat" /\ pc = "exec" /\ flat.match.found /\ flat.match.length = 0)
    => flat.lastIndex > flat.match.index

\* C8: flat packed entries: the decoding of the highlighter (offset = entry >>
\* 14, length = entry >> 8 & 0x3F) returns the start offset and the length of
\* every emitted token.
C8_FlatDecodeExact ==
  variant = "flat" =>
    \A t \in TokenSet :
      /\ FlatOffset(table, t.index) = t.from
      /\ FlatLength(table, t.index) = t.to - t.from

\* C9: highlighter: for the positions of different tokens, the output without
\* the inserted markers is the input and each of the tokens is wrapped once;
\* with no position the output is the input.
C9_HighlightPreserves ==
  pc = "done" =>
    /\ ~marked.threw
    /\ Strip(marked.value) = value
    /\ marked.value = WrapSpans(value, MatchedSpans)
    /\ (matches = <<>> => marked.value = value)

\* C10: highlighter: every ordering of two or more positions gives the same
\* output, which is the one of inserting the markers in descending decoded
\* offset order; a higher position index never decodes to a lower offset.
C10_OrderIndependent ==
  (pc = "done" /\ Len(matches) >= 2) =>
    /\ \A ms \in Orderings(matches) :
         Highlighter(variant, value, table, Positions(tokens, ms)) = marked
    /\ marked.value = WrapInOrder(value, SortByOffset(Positions(tokens, matches)))
    /\ \A j, k \in 1..Len(matches) :
         tokens[matches[j]].index > tokens[matches[k]].index =>
           DecodedOffset(tokens[matches[j]].index)
             >= DecodedOffset(tokens[matches[k]].index)

\* the block index stored with a token: index >> 16 in the block-table
\* variant, bits 2 to 7 of the table entry in the packed variants
TokenBlock(t) ==
  IF variant = "block" THEN Shr(t.index, BlockIndexShift)
  ELSE And32(Shr(FlatEntry(table, t.index), FlatBlockShift), 63)

\* C11: in every tokenizer variant and for every input, the block indices of
\* the emitted tokens are non-decreasing in emission order, and so are the
\* block indices of the sections the splitters return.
C11_BlockMonotone ==
  /\ \A i, j \in 1..Len(tokens) :
       i < j => TokenBlock(tokens[i]) <= TokenBlock(tokens[j])
  /\ \A i, j \in 1..Len(ex.sections) :
       i < j => ex.sections[i].block <= ex.sections[j].block

\* C11 witness: a tokenization has ended with tokens in two blocks
C11_Witness ==
  /\ pc = "tokenized"
  /\ \E i, j \in 1..Len(tokens) :
       i < j /\ TokenBlock(tokens[i]) < TokenBlock(tokens[j])

\* the offset of the "<" of the tag that ends with the ">" at offset q
TagStart(v, q) ==
  CHOOSE p \in 0..q :
    CharAt(v, p) = "<" /\ \A k \in (p + 1)..q : CharAt(v, k) # "<"

\* the tags of v that end before offset e, each the pair of the offsets of
\* its "<" and its ">", in a string whose tags are well formed
TagsBefore(v, e) ==
  {<<TagStart(v, q), q>> : q \in {k \in 0..(e - 1) : CharAt(v, k) = ">"}}

IsClosingTag(v, t) == CharAt(v, t[1] + 1) = "/"

IsSelfClosingTag(v, t) == ~IsClosingTag(v, t) /\ CharAt(v, t[2] - 1) = "/"

IsOpeningTag(v, t) == ~IsClosingTag(v, t) /\ ~IsSelfClosingTag(v, t)

\* the nesting depth at offset e: opening tags less closing tags before it
DepthAt(v, e) ==
  Cardinality({t \in TagsBefore(v, e) : IsOpeningTag(v, t)})
    - Cardinality({t \in TagsBefore(v, e) : IsClosingTag(v, t)})

\* the closing tags before offset e that bring the depth back to zero
BlocksAt(v, e) ==
  Cardinality({t \in TagsBefore(v, e) :
                 IsClosingTag(v, t) /\ DepthAt(v, t[2] + 1) = 0})

\* every closing tag closes an element that is open, and none stays open
Balanced(v) ==
  /\ WellFormed(v)
  /\ \A e \in 0..Len(v) : DepthAt(v, e) >= 0
  /\ DepthAt(v, Len(v)) = 0

\* C12: in both splitters, on markup whose tags are well formed, the depth
\* counter is the number of opening tags that are not self-closing less the
\* number of closing tags read so far, and the block counter is the number of
\* closing tags that brought the depth back to zero; hence on balanced markup
\* every token carries the number of top-level elements closed before it.
C12_NestingDepth ==
  (variant \in {"block", "flat"} /\ WellFormed(value)) =>
    /\ pc \in {"extract", "split"} =>
         /\ ex.stack = DepthAt(value, ex.end)
         /\ ex.block = BlocksAt(value, ex.end)
    /\ Balanced(value) =>
         \A t \in TokenSet : TokenBlock(t) = BlocksAt(value, t.from)

\* C12 witness: a balanced string with a nested element, a self-closing tag
\* and a second top-level element has been tokenized into two blocks
C12_Witness ==
  /\ variant \in {"block", "flat"}
  /\ pc = "tokenized"
  /\ Balanced(value)
  /\ \E t \in TagsBefore(value, Len(value)) : IsSelfClosingTag(value, t)
  /\ \E e \in 0..Len(value) : DepthAt(value, e) = 2
  /\ \E s, t \in TokenSet : TokenBlock(s) = 0 /\ TokenBlock(t) = 1

\* the offsets of v at which a tag starts that no later ">" ends
Unterminated(v) ==
  {p \in 0..(Len(v) - 1) :
     CharAt(v, p) = "<" /\ \A k \in (p + 1)..(Len(v) - 1) : CharAt(v, k) # ">"}

\* a section whose text is tokenized: every section of split, and the
\* sections of extract with add = 1
IsTextSection(s) == "add" \in DOMAIN s => s.add = 1

\* C13: extract and split, on an input that ends inside a tag, return no text
\* section that reaches into the characters from the "<" of that tag to the
\* end of the string, and no token is made of them.
C13_UnterminatedTag ==
  variant \in {"block", "flat"} =>
    \A p \in Unterminated(value) :
      /\ \A i \in 1..Len(sections) :
           IsTextSection(sections[i]) => sections[i].end <= p
      /\ \A t \in TokenSet : t.to <= p

\* the opening tags before offset e whose element is still open at e
OpenAt(v, e) ==
  {t \in TagsBefore(v, e) :
     /\ IsOpeningTag(v, t)
     /\ \A c \in TagsBefore(v, e) :
          (IsClosingTag(v, c) /\ c[2] > t[2]) =>
            DepthAt(v, c[2] + 1) >= DepthAt(v, t[2] + 1)}

\* what the prototype keeps of a tag: value.slice(start + 1, end)
TagName(v, t) == Slice(v, t[1] + 1, t[2])

\* C14: prototype tokenizer on balanced markup: between two tags the stack
\* holds exactly the names of the elements that are open, outermost first, so
\* a self-closing tag is not on it, and the block counter is the number of
\* top-level elements that have been closed.
C14_StackIsOpenElements ==
  (variant = "proto" /\ pc = "outer" /\ Balanced(value)) =>
    LET v    == ToLowerCase(value)
        open == OpenAt(v, proto.end)
    IN  /\ Len(proto.stack) = Cardinality(open)
        /\ \A t \in open : proto.stack[DepthAt(v, t[2] + 1)] = TagName(v, t)
        /\ proto.block = BlocksAt(v, proto.end)

\* the entries of the groups of the returned result
ResultEntries ==
  IF spc = "returned"
  THEN UNION {{result.items[i][j] : j \in 1..Len(result.items[i])} :
                i \in 1..Len(result.items)}
  ELSE {}

\* the terms of the clauses of q of which the presence is not PROHIBITED
CoveredTerms(q) ==
  LET clauses == ParseSearchQuery(q).clauses
  IN  {clauses[i].term :
         i \in {k \in 1..Len(clauses) : clauses[k].presence # "PROHIBITED"}}

\* C15: for every query, the keys of the terms of every entry of every
\* returned group are terms of clauses that are not PROHIBITED; for the query
\* "-f b" no entry has "f" among its terms.
C15_TermsExcludeProhibited ==
  \A e \in ResultEntries :
    /\ DOMAIN e.terms \subseteq CoveredTerms(query)
    /\ query = <<"-", "f", " ", "b">> => <<"f">> \notin DOMAIN e.terms

\* C15 witness: the query "-f b" has returned a hit with the term "b"
C15_Witness ==
  /\ query = <<"-", "f", " ", "b">>
  /\ \E e \in ResultEntries : DOMAIN e.terms = {<<"b">>}

\* a hit whose ref is not in the document map
IsStale(hit) == hit.ref \notin DOMAIN documents

IsLive(hit) == ~IsStale(hit)

\* C16: a hit whose ref is absent from the document map is in no group, and
\* the call ends as it ends for the other hits alone: the same return
\* statement, the same groups, entries, scores and order.
C16_StaleRefDropped ==
  spc # "idle" =>
    LET live == [index EXCEPT !.hits = SelectSeq(index.hits, IsLive)]
        call == SearchCall(documents, tables, options, query, live)
    IN  /\ result = call.result
        /\ spc = call.spc
        /\ \A e \in ResultEntries :
             "location" \in DOMAIN e => e.location \in DOMAIN documents

\* C16 witness: a result was returned for hits of which one is stale and
\* one is not
C16_Witness ==
  /\ spc = "returned"
  /\ \E i, j \in 1..Len(index.hits) :
       IsStale(index.hits[i]) /\ IsLive(index.hits[j])
  /\ result.items # <<>>

\* the entries of the result that were made of a hit of the index
HitEntries ==
  {e \in ResultEntries :
     "location" \in DOMAIN e /\
       \E i \in 1..Len(index.hits) : index.hits[i].ref = e.location}

HitOf(e) ==
  index.hits[CHOOSE i \in 1..Len(index.hits) : index.hits[i].ref = e.location]

\* 1 for a document without parent, an article, and 0 for a section
ArticleBonus(e) ==
  LET document == documents[e.location]
  IN  IF "parent" \in DOMAIN document /\ document.parent # Undefined
      THEN 0 ELSE 1

\* the analysed terms of the query that a matched term of the hit begins with
MatchedCount(e) ==
  Cardinality({t \in CoveredTerms(query) :
                 \E x \in DOMAIN HitOf(e).metadata : StartsWith(x, t)})

AnalysedCount == Cardinality(CoveredTerms(query))

\* rawScore * (1 + b * b) for b = ArticleBonus + MatchedCount / AnalysedCount
ExpectedScore(e) ==
  LET k == AnalysedCount
      b == ArticleBonus(e) * k + MatchedCount(e)
  IN  [n |-> HitOf(e).score * (k * k + b * b), d |-> k * k]

\* the same number: NaN on both sides, or the same fraction
SameScore(x, y) ==
  IF IsNaN(x) \/ IsNaN(y) THEN IsNaN(x) /\ IsNaN(y)
  ELSE x.n * y.d = y.n * x.d

\* the adjusted score of e is a number, and that of f is not greater
NotBelow(e, f) ==
  ~IsNaN(e.score) /\ ~IsNaN(f.score) /\ ~Greater(f.score, e.score)

ResultGroups == IF spc = "returned" THEN result.items ELSE <<>>

\* the places of the group that hold a hit of the index
HitPlaces(group) == {j \in 1..Len(group) : group[j] \in HitEntries}

\* an adjusted score of a hit of the group that no other hit of it exceeds
BestScore(group) ==
  LET best == CHOOSE j \in HitPlaces(group) :
                \A k \in HitPlaces(group) : ~Greater(group[k].score, group[j].score)
  IN  group[best].score

\* C18: in every returned result no entry of a group has a greater adjusted
\* score than an entry before it, a synthesized article entry, of score 0, is
\* the last of its group, and no group has a best hit of greater adjusted
\* score than the best hit of a group before it.
C18_Ordering ==
  /\ \A i \in 1..Len(ResultGroups) :
       LET group == ResultGroups[i]
       IN  /\ HitPlaces(group) # {}
           /\ \A j, k \in 1..Len(group) :
                j < k => ~Greater(group[k].score, group[j].score)
           /\ \A j \in (1..Len(group)) \ HitPlaces(group) :
                j = Len(group) /\ group[j].score = [n |-> 0, d |-> 1]
  /\ \A i, j \in 1..Len(ResultGroups) :
       i < j => ~Greater(BestScore(ResultGroups[j]), BestScore(ResultGroups[i]))

\* C18 witness: the boosts have changed the order of two hits of one group:
\* the hit of the lower raw score comes first, with the greater adjusted score
C18_Witness ==
  \E i \in 1..Len(ResultGroups) :
    LET group == ResultGroups[i]
    IN  /\ Len(group) = 2 /\ HitPlaces(group) = {1, 2}
        /\ HitOf(group[1]).score < HitOf(group[2]).score
        /\ Greater(group[1].score, group[2].score)

\* C19: after any sequence of calls of search the document map is a map as
\* setupSearchDocumentMap builds it and the tables are as the constructor
\* left them: no title or text of a stored document holds a <mark>; so the
\* result of a call is the result for the documents as constructed, and the
\* same query with the same answers of the index gives the same result again.
C19_IndexReadOnly ==
  /\ documents \in DocumentMaps
  /\ tables = SetupTables(DOMAIN documents)
  /\ \A l \in DOMAIN documents : \A f \in Fields :
       Occurrences(documents[l][f], Mark) = {}
  /\ spc # "idle" =>
       \E constructed \in DocumentMaps :
         /\ DOMAIN constructed = DOMAIN documents
         /\ result = SearchCall(constructed, SetupTables(DOMAIN constructed),
                                options, query, index).result

\* C19 witness: a call has returned a hit with its text highlighted, and the
\* text of the stored document has no <mark>
C19_Witness ==
  \E e \in HitEntries :
    /\ Occurrences(e.text, Mark) # {}
    /\ Occurrences(documents[e.location].text, Mark) = {}

\* C20: no QUERY message is sent to the worker before its READY message has
\* been received.
C20_ReadyBeforeQuery == issued # <<>> => ready

\* C21: the block-table and the flat packed tokenizer, with a whitespace
\* separator, make of "The <b>Mermaid</b> diagram" the tokens the, mermaid,
\* diagram in that order, and the offset and length decoded from the position
\* of the token mermaid cut "Mermaid" out of the string.
C21_MermaidScenario ==
  (/\ variant \in {"block", "flat"} /\ separator = "space"
   /\ value = Mermaid /\ pc \in {"tokenized", "done"}) =>
    /\ [i \in 1..Len(tokens) |-> tokens[i].text] =
         << <<"t", "h", "e">>,
            <<"m", "e", "r", "m", "a", "i", "d">>,
            <<"d", "i", "a", "g", "r", "a", "m">> >>
    /\ Slice(value, DecodedOffset(tokens[2].index),
             DecodedOffset(tokens[2].index) + DecodedLength(tokens[2].index))
         = <<"M", "e", "r", "m", "a", "i", "d">>

\* C21 witness: the string has been tokenized by the flat packed tokenizer
C21_Witness ==
  /\ variant = "flat" /\ separator = "space"
  /\ value = Mermaid /\ pc = "tokenized"
  /\ Len(tokens) = 3

\* the clauses the suggestion query is to have for the query q: one for each
\* clause that is not PROHIBITED, on the title field, REQUIRED, with a
\* trailing wildcard
SuggestionClauses(q) ==
  LET parsed == ParseSearchQuery(q).clauses
      kept   == {k \in 1..Len(parsed) : parsed[k].presence # "PROHIBITED"}
      nth(i) == CHOOSE k \in kept : Cardinality({j \in kept : j <= k}) = i
  IN  [i \in 1..Cardinality(kept) |->
         [term |-> parsed[nth(i)].term, fields |-> {"title"},
          presence |-> "REQUIRED", wildcard |-> "TRAILING"]]

\* the suggestions are asked for and returned as the claim says
SuggestionsAsClaimed ==
  /\ "suggestions" \in DOMAIN result <=> options.suggestions
  /\ asked.called <=> options.suggestions
  /\ options.suggestions =>
       /\ asked.clauses = SuggestionClauses(query)
       /\ result.suggestions =
            IF index.titles = <<>> THEN {} ELSE index.titles[1]

\* C22 as stated: every result of search has the suggestions field exactly
\* when options.suggestions is set, the empty result of an empty query or of
\* a failed call too.
C22_SuggestionsAlways == spc # "idle" => SuggestionsAsClaimed

\* C22: a result that search returns with its groups, for a query that is not
\* empty and a call in which nothing threw, has the suggestions field exactly
\* when options.suggestions is set; the suggestion query has one clause for
\* each clause of the query that is not PROHIBITED, on the title field,
\* REQUIRED and with a trailing wildcard, and the suggestions are the matched
\* terms of its best hit, or empty when it has no hit.  The empty result of
\* an empty query or of a failed call has no suggestions field.
C22_Suggestions ==
  /\ spc = "returned" => SuggestionsAsClaimed
  /\ spc = "nothing" => "suggestions" \notin DOMAIN result

\* C22 witness: suggestions were returned from the better of two different
\* hits of the suggestion query
C22_Witness ==
  /\ spc = "returned" /\ options.suggestions
  /\ Len(asked.clauses) = 2
  /\ Len(index.titles) = 2 /\ index.titles[1] # index.titles[2]
  /\ result.suggestions = index.titles[1]

\* the number of times fn occurs in a pipeline
TimesIn(stack, fn) == Cardinality({i \in 1..Len(stack) : stack[i] = fn})

\* the functions lunr[language][stage] of the configured languages
LanguageFunctions(named) ==
  { [owner |-> config.lang[i], stage |-> s] :
      i \in 1..Len(config.lang),
      s \in {t \in StageNames : (t \in options.pipeline) = named} }

\* C23: after the constructor has finished, for every language of config.lang
\* and every stage among trimmer, stopWordFilter and stemmer that is not named
\* in options.pipeline, that language's stage is in neither the indexing
\* pipeline nor the search pipeline; and no step of the constructor's removal
\* loop takes out a function whose stage is named in options.pipeline
C23_PipelineConfiguration ==
  /\ [](cpc = "done" =>
          \A fn \in LanguageFunctions(FALSE) :
            /\ TimesIn(pipeline, fn) = 0
            /\ TimesIn(searchPipeline, fn) = 0)
  /\ [][cpc = "remove" =>
          \A o \in Languages \cup {"multi"}, s \in options.pipeline :
            LET fn == [owner |-> o, stage |-> s]
            IN  /\ TimesIn(pipeline', fn) = TimesIn(pipeline, fn)
                /\ TimesIn(searchPipeline', fn) =
                     TimesIn(searchPipeline, fn)]_vars

\* C23 witness: two languages, the stemmer kept: the stop word filters of both
\* languages are gone and both stemmers are in both pipelines
C23_Witness ==
  /\ cpc = "done"
  /\ config.lang = <<"en", "de">>
  /\ options.pipeline = {"stemmer"}
  /\ Len(pipeline) = 3
  /\ searchPipeline = <<[owner |-> "en", stage |-> "stemmer"],
                        [owner |-> "de", stage |-> "stemmer"]>>

\* C24: after the constructor has finished, the key set of the tables map is
\* the set of locations of the indexed documents, and every entry holds a
\* position table (a list, empty for a field the document lacks) for each of
\* the fields title, text and tags
C24_PositionTables ==
  cpc = "done" =>
    /\ DOMAIN tables = {indexDocs[i].location : i \in 1..Len(indexDocs)}
    /\ \A i \in 1..Len(indexDocs) :
         LET entry == tables[indexDocs[i].location]
         IN  /\ DOMAIN entry = {"title", "text", "tags"}
             /\ \A f \in DOMAIN entry :
                  /\ entry[f] \in Seq(Int)
                  /\ (f \notin DOMAIN indexDocs[i] \/ indexDocs[i][f] = <<>>)
                       => entry[f] = <<>>

\* C24 witness: a section without tags and without a title was indexed next
\* to a page that has all three fields
C24_Witness ==
  /\ cpc = "done"
  /\ Len(indexDocs) = 2
  /\ "tags" \notin DOMAIN indexDocs[2] /\ indexDocs[2].title = <<>>
  /\ "tags" \in DOMAIN indexDocs[1]
  /\ tables[indexDocs[2].location].tags = <<>>
  /\ tables[indexDocs[1].location].tags # <<>>

\* location$ has emitted in the step
Navigated == navigations' = navigations + 1

\* a document fetch has started in the step
FetchStarted == requested' # requested

\* document$ has emitted in the step
DocumentEmitted == Len(delivered') = Len(delivered) + 1

\* C25: a location emitted on location$ starts a document fetch only when its
\* pathname differs from the pathname of the previously emitted location
\* (initially the page's own location), so an anchor-only navigation never
\* fetches; a fetch that starts drops the request in flight; and every
\* document emitted on document$ is the document of the latest request
C25_InstantNavigation ==
  [][/\ FetchStarted => Navigated /\ previous'.pathname # previous.pathname
     /\ Navigated /\ previous'.pathname = previous.pathname => ~FetchStarted
     /\ FetchStarted => request' = requested' /\ response' = response
     /\ DocumentEmitted => delivered'[Len(delivered')] = requested']_vars

\* the labels stored under __tabs
Persisted(stored) == {stored.value[i] : i \in 1..Len(stored.value)}

\* C26: with content.tabs.link enabled, after every tab activation the list
\* stored under __tabs contains no label twice, its first element is the
\* label that was just activated, and every label that was stored before the
\* activation is still in it
C26_LinkedTabs ==
  [][link /\ activations' = activations + 1 =>
       /\ storage'.item
       /\ \A i, j \in 1..Len(storage'.value) :
            storage'.value[i] = storage'.value[j] => i = j
       /\ storage'.value[1] = Trim(active')
       /\ Persisted(storage) \subseteq Persisted(storage')]_vars

\* C26 witness: three activations have left two labels in the list, the last
\* activated, whose label has white space around its text, in front
C26_Witness ==
  /\ link
  /\ activations = 3
  /\ Len(storage.value) = 2
  /\ active = <<"b", " ">>
  /\ storage.value[1] = <<"b">>

\* C27: for every hit of every non-empty query that parses, also a query of
\* prohibited clauses only, the term-coverage fraction of the boost has a
\* denominator that is not zero (the query has an analysed term), and the
\* adjusted score of the hit is a number
C27_CoverageDenominator ==
  \A e \in HitEntries : AnalysedCount > 0 /\ ~IsNaN(e.score)

\* C28: a host with a title carries, at every moment after the subscription,
\* exactly one of the two attributes: aria-describedby with the id of the
\* tooltip while the tooltip is attached after the host, or title with the
\* original title while the tooltip is detached; after the component has
\* completed or was unsubscribed the host has its original title, no
\* aria-describedby, and the tooltip is detached
C28_TooltipHost ==
  hostTitle # "" =>
    /\ tpc = "mounted" =>
         \/ host = Attribute("aria-describedby", tooltipId) /\ attached
         \/ host = Attribute("title", hostTitle) /\ ~attached
    /\ tpc = "completed" =>
         host = Attribute("title", hostTitle) /\ ~attached

\* C28 witness: the component was unsubscribed while the tooltip was shown
\* (the host had the focus and was not hovered), after four changes of focus
\* and hover
C28_Witness ==
  /\ tpc = "completed"
  /\ hostTitle = "t"
  /\ changes = 4
  /\ focus = <<TRUE>> /\ hover = <<FALSE>>
  /\ host = Attribute("title", "t")
  /\ ~attached

\* v occurs in w
IsSubstring(v, w) ==
  \E i \in 0..(Len(w) - Len(v)) : SubSeq(w, i + 1, i + Len(v)) = v

\* C29: every call of cut returns, and what it returns is a list that is not
\* empty, of which every element is in the trained set and occurs in the
\* input, or else the list of the input alone
C29_CutTerminates ==
  /\ (gpc = "cut") ~> (gpc = "returned")
  /\ [](gpc = "returned" =>
          /\ Len(cutReturn) > 0
          /\ \/ \A k \in 1..Len(cutReturn) :
                  cutReturn[k] \in trained /\ IsSubstring(cutReturn[k], cutValue)
             \/ cutReturn = <<cutValue>>)

\* C29 witness: cut has returned two segments of the trained set
C29_Witness ==
  /\ gpc = "returned"
  /\ Len(cutReturn) = 2
  /\ cutReturn[1] # cutReturn[2]
  /\ \A k \in 1..2 : cutReturn[k] \in trained

\* the concatenation of the elements of a list
RECURSIVE Concat(_)
Concat(list) == IF list = <<>> THEN <<>> ELSE Head(list) \o Concat(Tail(list))

\* C30: the concatenation of the segments that cut returns, in their order,
\* is the input
C30_CutLossless ==
  gpc = "returned" => Concat(cutReturn) = cutValue

====
